---------------------------- MODULE Spec2Model ----------------------------
(***************************************************************************)
(* A model of panphylo (tresoldi/panphylo): the internal data model        *)
(* (PhyloData / Character), the binarizer, label slugging and unique_ids.  *)
(*                                                                         *)
(* Python strings are modelled as sequences of one-character atoms; an     *)
(* atom is a TLA+ string, and Ord gives its code point, so that sorted()   *)
(* and the comparison of labels are computed as Python computes them.      *)
(***************************************************************************)
EXTENDS Integers, Sequences, FiniteSets, TLC

VARIABLES
    phyd,     \* the phylodata.PhyloData under construction: _taxa, _charset, _obs
    heap,     \* the internal.PhyloData (phylodata.OldPhyloData) objects, by reference
    result,   \* the reference the last binarize call returned (0: none yet)
    last,     \* the last call made and its arguments
    calls,    \* number of calls made so far (bounded)
    call,     \* the arguments of a call of a pure function
    ret       \* what that call returned

vars == <<phyd, heap, result, last, calls, call, ret>>

----------------------------------------------------------------------------
(* Bounds of the model.                                                    *)

\* Calls made on the phylodata.PhyloData.
MaxCalls == 3
\* Calls made on the internal.PhyloData objects.
MaxOldCalls == 3
\* Longest list of labels given to unique_ids, and the longest list of copies
\* of one label (long enough for the suffixes after "-z").
MaxLen == 3
MaxRepeat == 28

----------------------------------------------------------------------------
(* Strings.                                                                *)

\* The printable ASCII characters, in code point order (32 .. 126); the double
\* quote, the backslash and the backtick are written as named atoms.
Ascii ==
    << " ", "!", "dquote", "#", "$", "%", "&", "'", "(", ")", "*", "+", ",", "-", ".", "/",
       "0", "1", "2", "3", "4", "5", "6", "7", "8", "9", ":", ";", "<", "=", ">", "?",
       "@", "A", "B", "C", "D", "E", "F", "G", "H", "I", "J", "K", "L", "M", "N", "O",
       "P", "Q", "R", "S", "T", "U", "V", "W", "X", "Y", "Z", "[", "backslash", "]", "^", "_",
       "backtick", "a", "b", "c", "d", "e", "f", "g", "h", "i", "j", "k", "l", "m", "n", "o",
       "p", "q", "r", "s", "t", "u", "v", "w", "x", "y", "z", "{", "|", "}", "~" >>

\* The code point of a character (Python's ord); beside ASCII the model has the
\* tab and the letters e-acute and A-ring, written as named atoms.
Ord(c) ==
    CASE c = "tab" -> 9
      [] c = "A_ring" -> 197
      [] c = "e_acute" -> 233
      [] OTHER -> 31 + (CHOOSE i \in 1..Len(Ascii) : Ascii[i] = c)

\* Python's `<` on strings: lexicographic on code points.
RECURSIVE StrLess(_, _)
StrLess(s, t) ==
    IF t = <<>> THEN FALSE
    ELSE IF s = <<>> THEN TRUE
    ELSE IF Head(s) = Head(t) THEN StrLess(Tail(s), Tail(t))
    ELSE Ord(Head(s)) < Ord(Head(t))

StrLeq(s, t) == s = t \/ StrLess(s, t)

\* sorted(S) for a set of strings.
RECURSIVE Sorted(_)
Sorted(S) ==
    IF S = {} THEN <<>>
    ELSE LET m == CHOOSE x \in S : \A y \in S : StrLeq(x, y)
         IN  <<m>> \o Sorted(S \ {m})

\* seq.index(x): the 0-based position of the first occurrence of x.
Index(seq, x) == (CHOOSE i \in 1..Len(seq) : seq[i] = x /\ \A j \in 1..(i-1) : seq[j] # x) - 1

\* "".join(parts) for a sequence of strings.
RECURSIVE Concat(_)
Concat(parts) == IF parts = <<>> THEN <<>> ELSE Head(parts) \o Concat(Tail(parts))

\* sep.join(parts).
RECURSIVE Join(_, _)
Join(sep, parts) ==
    IF parts = <<>> THEN <<>>
    ELSE IF Len(parts) = 1 THEN Head(parts)
    ELSE Head(parts) \o sep \o Join(sep, Tail(parts))

Range(f) == {f[x] : x \in DOMAIN f}

\* Python's None, as passed for an absent charset; None and "" are both falsy.
None == <<"None">>
Falsy(x) == x = None \/ x = <<>>

----------------------------------------------------------------------------
(* The inputs the calls are drawn from.                                    *)

MISSING == <<"?">>
GAP == <<"-">>

TaxonNames == { <<"t", "1">>, <<"t", "2">> }
CharNames == { <<"c", "1">>, <<"c", "2">> }
CharsetArgs == { None, <<"g">> }
Tokens == { MISSING, GAP, <<"0">>, <<"a">> }

----------------------------------------------------------------------------
(* phylodata.Character                                                     *)

\* Character.__init__(states): a falsy (empty) set gives a fresh empty set.
Character(states) == states

\* Character.states: the sorted tuple of the internal set.
Character_states(char) == Sorted(char)

\* Character.add_state(state)
Character_add_state(char, state) == char \cup {state}

\* len(character)
CharLen(char) == Cardinality(char)

----------------------------------------------------------------------------
(* phylodata.PhyloData                                                     *)

\* PhyloData.__init__
NewPhyloData == [taxa |-> {}, charset |-> <<>>, obs |-> <<>>]

\* PhyloData.__getitem__: self._obs.get(item, set())
GetObs(self, item) == IF item \in DOMAIN self.obs THEN self.obs[item] ELSE {}

\* A mutant of extend that forgets to register the taxon.
extendNoTaxon(self, key, value) ==
    LET character == key[3]
        cs == IF Falsy(key[2]) THEN character ELSE key[2]
        k == <<key[1], cs, character>>
    IN  [ taxa |-> self.taxa,
          charset |->
            IF cs \in DOMAIN self.charset
            THEN IF character \in DOMAIN self.charset[cs]
                 THEN [self.charset EXCEPT ![cs][character] = Character_add_state(@, value)]
                 ELSE [self.charset EXCEPT ![cs] = (character :> Character({value})) @@ @]
            ELSE (cs :> (character :> Character({value}))) @@ self.charset,
          obs |-> (k :> (GetObs(self, k) \cup {value})) @@ self.obs ]

\* PhyloData.extend(key, value), key = (taxon, charset, character).
extend(self, key, value) ==
    LET taxon == key[1]
        character == key[3]
        \* no charset given: a "dummy" charset named as the character
        cs == IF Falsy(key[2]) THEN character ELSE key[2]
        k == <<taxon, cs, character>>
    IN  [ taxa |-> self.taxa \cup {taxon},
          charset |->
            IF cs \in DOMAIN self.charset
            THEN IF character \in DOMAIN self.charset[cs]
                 THEN [self.charset EXCEPT ![cs][character] = Character_add_state(@, value)]
                 ELSE [self.charset EXCEPT ![cs] = (character :> Character({value})) @@ @]
            ELSE (cs :> (character :> Character({value}))) @@ self.charset,
          \* self._obs is a defaultdict(set)
          obs |-> (k :> (GetObs(self, k) \cup {value})) @@ self.obs ]

\* PhyloData.taxa: sorted tuple of the taxa set.
taxa(self) == Sorted(self.taxa)

\* The (charset_id, char_id) pairs of the character map.
CharPairs(self) == { <<cs, ch>> : cs \in DOMAIN self.charset, ch \in CharNames } \cap
                   { p \in (DOMAIN self.charset) \X CharNames : p[2] \in DOMAIN self.charset[p[1]] }

\* Python's `<=` on (charset_id, char_id) tuples.
PairLeq(p, q) == StrLess(p[1], q[1]) \/ (p[1] = q[1] /\ StrLeq(p[2], q[2]))

RECURSIVE SortedPairs(_)
SortedPairs(S) ==
    IF S = {} THEN <<>>
    ELSE LET m == CHOOSE x \in S : \A y \in S : PairLeq(x, y)
         IN  <<m>> \o SortedPairs(S \ {m})

\* PhyloData.characters: charsets in sorted order, characters sorted within each.
characters(self) == SortedPairs(CharPairs(self))

Max(S) == CHOOSE x \in S : \A y \in S : y <= x

\* PhyloData.cardinality: the size of the largest character's state set.
cardinality(self) ==
    Max({ Max({ CharLen(self.charset[cs][ch]) : ch \in DOMAIN self.charset[cs] })
          : cs \in DOMAIN self.charset })

\* string.digits + string.ascii_uppercase
Alphabet == SubSeq(Ascii, 17, 26) \o SubSeq(Ascii, 34, 59)

\* PhyloData.symbols: the first `cardinality` characters of the alphabet.
symbols(self) == SubSeq(Alphabet, 1, cardinality(self))

\* The order in which Python iterates a set of strings is not fixed by the
\* language (it follows the strings' hashes, which vary from run to run): an
\* iteration order is a permutation of the tokens, chosen nondeterministically.
IterOrders == { it \in [1..Cardinality(Tokens) -> Tokens] : Range(it) = Tokens }

\* list(S) under the iteration order `it`.
Iterate(S, it) == SelectSeq(it, LAMBDA x : x \in S)

\* matrix(), the list comprehension: [symbols[states.index(o)] for o in obs]
obs_repr(self, p, taxon, it) ==
    LET sts == Character_states(self.charset[p[1]][p[2]])
        sym == symbols(self)
        obs == Iterate(GetObs(self, <<taxon, p[1], p[2]>>), it)
    IN  [i \in 1..Len(obs) |-> <<sym[Index(sts, obs[i]) + 1]>>]

\* matrix(), the body of the inner loop: what is appended to matrix[taxon]
\* for one character (nothing when there is no observation).
Cell(self, p, taxon, it) ==
    IF GetObs(self, <<taxon, p[1], p[2]>>) = {} THEN <<>>
    ELSE LET r == obs_repr(self, p, taxon, it)
         IN  IF Len(r) = 1 THEN r[1]
             ELSE <<"(">> \o Join(<<",">>, r) \o <<")">>

\* matrix[taxon] after the loops.
Row(self, taxon, it) ==
    LET chars == characters(self)
    IN  Concat([i \in 1..Len(chars) |-> Cell(self, chars[i], taxon, it)])

\* PhyloData.matrix(): the sorted (taxon, vector) pairs; `matrix` is a
\* defaultdict(str), so only a taxon with some observation gets an entry.
matrix(self, it) ==
    LET chars == characters(self)
        present == { t \in self.taxa :
                       \E i \in 1..Len(chars) :
                          GetObs(self, <<t, chars[i][1], chars[i][2]>>) # {} }
        rows == Sorted(present)
    IN  [i \in 1..Len(rows) |-> <<rows[i], Row(self, rows[i], it)>>]

----------------------------------------------------------------------------
(* Operations on phyd.                                                     *)

NoCall == [op |-> "init", taxon |-> None, charset |-> None, character |-> None, value |-> None]

\* The variables of the other parts of the model, at rest.
IdleOld == heap = <<>> /\ result = 0
IdleFn == call = <<>> /\ ret = <<>>

Init ==
    /\ phyd = NewPhyloData
    /\ last = NoCall
    /\ calls = 0
    /\ IdleOld
    /\ IdleFn

\* phyd.extend((taxon, charset, character), value)
Extend(taxon, cs, character, value) ==
    /\ calls < MaxCalls
    /\ phyd' = extend(phyd, <<taxon, cs, character>>, value)
    /\ last' = [op |-> "extend", taxon |-> taxon, charset |-> cs,
                character |-> character, value |-> value]
    /\ calls' = calls + 1
    /\ UNCHANGED <<heap, result, call, ret>>

\* phyd._charset[cs][character].add_state(state) on an existing Character.
CharacterAddState(cs, character, state) ==
    /\ calls < MaxCalls
    /\ cs \in DOMAIN phyd.charset
    /\ character \in DOMAIN phyd.charset[cs]
    /\ phyd' = [phyd EXCEPT !.charset[cs][character] = Character_add_state(@, state)]
    /\ last' = [op |-> "add_state", taxon |-> None, charset |-> cs,
                character |-> character, value |-> state]
    /\ calls' = calls + 1
    /\ UNCHANGED <<heap, result, call, ret>>

Next ==
    \/ \E t \in TaxonNames, cs \in CharsetArgs, c \in CharNames, v \in Tokens :
          Extend(t, cs, c, v)
    \/ \E cs \in CharNames \cup CharsetArgs, c \in CharNames, v \in Tokens :
          CharacterAddState(cs, c, v)

Spec == Init /\ [][Next]_vars

----------------------------------------------------------------------------
(* common.slug and common.unique_ids                                       *)

\* string.digits, string.ascii_uppercase, string.ascii_lowercase
Digits == SubSeq(Ascii, 17, 26)
Uppercase == SubSeq(Ascii, 34, 59)
Lowercase == SubSeq(Ascii, 66, 91)

\* string.ascii_letters
AsciiLetters == Range(Lowercase) \cup Range(Uppercase)

\* unidecode.unidecode: the closest ASCII rendering, character by character.
UnidecodeChar(c) ==
    CASE c = "A_ring" -> <<"A">>
      [] c = "e_acute" -> <<"e">>
      [] OTHER -> <<c>>

Unidecode(label) == Concat([i \in 1..Len(label) |-> UnidecodeChar(label[i])])

\* What the regular expression \s matches.
IsSpace(c) == c \in {" ", "tab"}

\* str.strip()
RECURSIVE LStrip(_)
LStrip(label) ==
    IF label # <<>> /\ IsSpace(Head(label)) THEN LStrip(Tail(label)) ELSE label

RECURSIVE RStrip(_)
RStrip(label) ==
    IF label # <<>> /\ IsSpace(label[Len(label)])
    THEN RStrip(SubSeq(label, 1, Len(label) - 1)) ELSE label

Strip(label) == RStrip(LStrip(label))

\* re.sub("\s+", repl, label): every maximal run of whitespace becomes repl.
RECURSIVE SubSpaces(_, _)
SubSpaces(repl, label) ==
    IF label = <<>> THEN <<>>
    ELSE IF IsSpace(Head(label))
         THEN repl \o SubSpaces(repl, LStrip(label))
         ELSE <<Head(label)>> \o SubSpaces(repl, Tail(label))

\* str.lower(), on the model's (transliterated, ASCII) characters.
LowerChar(c) ==
    IF c \in Range(Uppercase)
    THEN Lowercase[CHOOSE i \in 1..Len(Uppercase) : Uppercase[i] = c] ELSE c

Lower(label) == [i \in 1..Len(label) |-> LowerChar(label[i])]

\* "".join([char for char in label if char in allowed])
Keep(label, allowed) == SelectSeq(label, LAMBDA c : c \in allowed)

\* common.slug(label, level); a level other than none, simple or full falls
\* through the if/elif chain and the label is returned as it came.
slug(label, level) ==
    CASE level = "none" -> label
      [] level = "simple" ->
            Keep(SubSpaces(<<"_">>, Strip(Unidecode(label))),
                 AsciiLetters \cup Range(Digits) \cup {"-", "_"})
      [] level = "full" ->
            Keep(Lower(SubSpaces(<<" ">>, Strip(Unidecode(label)))), AsciiLetters)
      [] OTHER -> label

RECURSIVE Pow26(_)
Pow26(n) == IF n = 0 THEN 1 ELSE 26 * Pow26(n - 1)

\* The k-th tuple (0-based) of itertools.product(ascii_lowercase, repeat=length):
\* the `length` base-26 digits of k.
RECURSIVE ProductAt(_, _)
ProductAt(k, length) ==
    IF length = 0 THEN <<>>
    ELSE ProductAt(k \div 26, length - 1) \o <<Lowercase[(k % 26) + 1]>>

\* unique_ids._label_iter: the k-th label (0-based) the generator yields,
\* running through the lengths 1, 2, ... and the product of each length.
RECURSIVE LabelIterFrom(_, _)
LabelIterFrom(k, length) ==
    IF k < Pow26(length) THEN <<"-">> \o ProductAt(k, length)
    ELSE LabelIterFrom(k - Pow26(length), length + 1)

_label_iter(k) == LabelIterFrom(k, 1)

\* list.count(value)
Count(seq, value) == Cardinality({i \in 1..Len(seq) : seq[i] = value})

\* The error raised by max() on an empty sequence.
ValueError == [err |-> "ValueError", value |-> <<>>]
Returned(v) == [err |-> "none", value |-> v]

\* common.unique_ids(labels, level)
unique_ids(labels, level) ==
    LET slugged == [i \in 1..Len(labels) |-> slug(labels[i], level)]
        \* the count of previous occurrences of the same value
        loc_counts == [i \in 1..Len(slugged) |-> Count(SubSeq(slugged, 1, i - 1), slugged[i])]
        \* suffix = {count: next(label_iter) for count in range(max(loc_counts) + 1)}
        suffix == [count \in 0..Max(Range(loc_counts) \cup {0}) |-> _label_iter(count)]
    IN  IF Len(loc_counts) = 0 THEN ValueError \* max() arg is an empty sequence
        ELSE Returned([i \in 1..Len(slugged) |->
                          IF Count(slugged, slugged[i]) > 1
                          THEN slugged[i] \o suffix[loc_counts[i]]
                          ELSE slugged[i]])

\* The slug levels of the interface.
Levels == {"none", "simple", "full"}

\* Labels given to unique_ids: some collapse to one slug at level simple or full.
IdLabels == { <<"a">>, <<"A">>, <<"a", " ">>, <<"a", "-", "a">> }

RECURSIVE ListsUpTo(_, _)
ListsUpTo(S, n) ==
    IF n = 0 THEN { <<>> }
    ELSE LET shorter == ListsUpTo(S, n - 1)
         IN  shorter \cup { Append(l, x) : l \in { m \in shorter : Len(m) = n - 1 }, x \in S }

IdInputs == ListsUpTo(IdLabels, MaxLen) \cup { [i \in 1..n |-> <<"a">>] : n \in 1..MaxRepeat }

NoIdle == [op |-> "idle"]

\* A call of unique_ids on a list of labels.
InitIds ==
    /\ call \in [fn : {"unique_ids"}, labels : IdInputs, level : Levels]
    /\ ret = <<>>
    /\ phyd = NewPhyloData /\ last = NoIdle /\ calls = 0
    /\ IdleOld

UniqueIds ==
    /\ ret = <<>>
    /\ ret' = unique_ids(call.labels, call.level)
    /\ UNCHANGED <<phyd, heap, result, last, calls, call>>

NextIds == UniqueIds

SpecIds == InitIds /\ [][NextIds]_vars

----------------------------------------------------------------------------
(* internal.PhyloData, and phylodata.OldPhyloData, which has the same      *)
(* fields and methods: taxa, characters, charset, states.                  *)

\* PhyloData.__init__ (charset and states are defaultdict(set))
OldPhyloData == [taxa |-> {}, characters |-> {}, charset |-> <<>>, states |-> <<>>]

\* d[key] of a defaultdict(set), read without inserting.
GetSet(d, key) == IF key \in DOMAIN d THEN d[key] ELSE {}

\* PhyloData.add_state(taxon, character, state, charset=None)
add_state(self, taxon, character, state, cs) ==
    [ taxa |-> self.taxa \cup {taxon},
      characters |-> self.characters \cup {character},
      charset |-> IF Falsy(cs) THEN self.charset
                  ELSE (cs :> (GetSet(self.charset, cs) \cup {character})) @@ self.charset,
      states |-> (<<taxon, character>> :> (GetSet(self.states, <<taxon, character>>) \cup {state}))
                    @@ self.states ]

\* PhyloData.charstates: for every character that is part of a key of
\* self.states, its observed states other than "?". The code lists them by
\* decreasing frequency; binarize keys its output by the state's label, so the
\* model keeps the states of a character as a set.
charstates(self) ==
    [ character \in { k[2] : k \in DOMAIN self.states } |->
        UNION { self.states[k] \ {MISSING} : k \in { j \in DOMAIN self.states : j[2] = character } } ]

\* internal.PhyloData.binarize, the test for missing data: tuple(obs) == "?",
\* a tuple compared with a string, which is never equal.
IsMissingObs(obs) == FALSE

\* binarize, first loop: binary_states[taxon, character], one BinaryObs per
\* state of the character (here by state label).
binary_states(self) ==
    LET cst == charstates(self)
    IN  [ tc \in self.taxa \X DOMAIN cst |->
            LET obs == GetSet(self.states, tc)  \* self.states.get((taxon, character), None)
            IN  [ state \in cst[tc[2]] |->
                    IF obs = {} THEN "GAP"
                    ELSE IF IsMissingObs(obs) THEN "MISSING"
                    ELSE IF state \in obs THEN "TRUE" ELSE "FALSE" ] ]

\* BINARY_OPS_MAP
BINARY_OPS_MAP(obs) ==
    CASE obs = "FALSE" -> <<"0">>
      [] obs = "TRUE" -> <<"1">>
      [] obs = "MISSING" -> <<"?">>
      [] obs = "GAP" -> <<"-">>

\* f"{character}_ASCERTAINMENT" and f"{character}_{state_label}"
AscertainmentKey(character) ==
    character \o <<"_", "A", "S", "C", "E", "R", "T", "A", "I", "N", "M", "E", "N", "T">>
StateKey(character, state_label) == character \o <<"_">> \o state_label

\* binarize, second loop: the add_state calls made on bin_phyd, as
\* (taxon, character, state, charset) tuples. Both calls sit inside the loop
\* over the states of the character.
BinarizeCalls(self) ==
    LET bst == binary_states(self)
    IN  UNION { UNION { { <<tc[1], AscertainmentKey(tc[2]), <<"0">>, tc[2]>> } \cup
                        ( IF bst[tc][state_label] # "GAP"
                          THEN { <<tc[1], StateKey(tc[2], state_label),
                                   BINARY_OPS_MAP(bst[tc][state_label]), tc[2]>> }
                          ELSE {} )
                        : state_label \in DOMAIN bst[tc] }
                : tc \in DOMAIN bst }

\* A sequence of add_state calls on one object; the calls only add to sets, so
\* their order does not bear on the outcome.
RECURSIVE AddAll(_, _)
AddAll(self, todo) ==
    IF todo = {} THEN self
    ELSE LET c == CHOOSE x \in todo : TRUE
         IN  AddAll(add_state(self, c[1], c[2], c[3], c[4]), todo \ {c})

\* A mutant of the allocation in binarize: the output is accumulated in self.
BinPhydIsSelf(hp, self) == [ref |-> self, heap |-> hp]

\* bin_phyd = PhyloData(): a new, empty object with a reference of its own.
BinPhyd(hp, self) ==
    LET ref == Cardinality(DOMAIN hp) + 1
    IN  [ref |-> ref, heap |-> (ref :> OldPhyloData) @@ hp]

\* internal.PhyloData.binarize: the heap after the call and the reference returned.
binarize(hp, self) ==
    LET todo == BinarizeCalls(hp[self])
        new == BinPhyd(hp, self)
    IN  [ref |-> new.ref,
         heap |-> [new.heap EXCEPT ![new.ref] = AddAll(@, todo)]]

\* phylodata.binarize(phyd): its first loop is that of the method (with the
\* test tuple(obs) == ("?",)), but bin_phyd is a phylodata.PhyloData, which has
\* no add_state method: the first pass through the body of the second loop
\* raises AttributeError; without any pass the empty PhyloData is returned.
binarize_fn(self) ==
    LET cst == charstates(self)
    IN  IF \E tc \in self.taxa \X DOMAIN cst : cst[tc[2]] # {}
        THEN [err |-> "AttributeError", value |-> <<>>]
        ELSE Returned(NewPhyloData)

\* slug_taxa / slug_characters: list(labels) in the set's iteration order.
Orders(S) == { it \in [1..Cardinality(S) -> S] : Range(it) = S }

\* {source: target for source, target in zip(labels, unique_ids(labels, level))}
SlugMap(it, level) ==
    LET ids == unique_ids(it, level).value
    IN  [ source \in Range(it) |-> ids[CHOOSE i \in 1..Len(it) : it[i] = source] ]

\* PhyloData.slug_taxa(level): the taxa are replaced by the values of the slug
\* map; new_values is filled under the keys self.states already has.
slug_taxa(self, it, level) ==
    LET slug_map == SlugMap(it, level)
    IN  [ self EXCEPT
            !.taxa = Range(slug_map),
            !.states = [ k \in DOMAIN self.states |-> self.states[k] ] ]

\* PhyloData.slug_characters(level)
slug_characters(self, it, level) ==
    LET slug_map == SlugMap(it, level)
    IN  [ self EXCEPT
            !.characters = Range(slug_map),
            !.states = [ k \in DOMAIN self.states |-> self.states[k] ] ]

----------------------------------------------------------------------------
(* Operations on the internal.PhyloData objects. Object 1 is the data read  *)
(* from the source; convert slugs it and binarizes it.                     *)

NoOldCall == [op |-> "init", obj |-> 0, arg |-> "", it |-> <<>>, err |-> "none"]

InitOld ==
    /\ heap = (1 :> OldPhyloData)
    /\ result = 0
    /\ last = NoOldCall
    /\ calls = 0
    /\ phyd = NewPhyloData
    /\ IdleFn

\* heap[obj].add_state(taxon, character, state, charset)
AddState(obj, taxon, character, state, cs) ==
    /\ calls < MaxOldCalls
    /\ obj \in DOMAIN heap
    /\ heap' = [heap EXCEPT ![obj] = add_state(@, taxon, character, state, cs)]
    /\ last' = [NoOldCall EXCEPT !.op = "add_state", !.obj = obj]
    /\ calls' = calls + 1
    /\ UNCHANGED <<phyd, result, call, ret>>

\* convert: `if args["binarize"]: phyd = phyd.binarize()`; args["ascertainment"]
\* (mode) is parsed from the command line and read nowhere.
Binarize(mode) ==
    /\ calls < MaxOldCalls
    /\ LET r == binarize(heap, 1)
       IN  heap' = r.heap /\ result' = r.ref
    /\ last' = [NoOldCall EXCEPT !.op = "binarize", !.obj = 1, !.arg = mode]
    /\ calls' = calls + 1
    /\ UNCHANGED <<phyd, call, ret>>

\* phylodata.binarize(heap[1])
BinarizeFn(mode) ==
    /\ calls < MaxOldCalls
    /\ ret' = binarize_fn(heap[1])
    /\ last' = [NoOldCall EXCEPT !.op = "binarize_fn", !.obj = 1, !.arg = mode,
                                 !.err = binarize_fn(heap[1]).err]
    /\ calls' = calls + 1
    /\ UNCHANGED <<phyd, heap, result, call>>

\* The --ascertainment choices of the command line.
AscertainmentModes == {"default", "true", "false"}

OldStates == { MISSING, <<"A">>, <<"b">> }

NextOld ==
    \/ \E obj \in DOMAIN heap, t \in TaxonNames, c \in CharNames, v \in OldStates :
          AddState(obj, t, c, v, None)
    \/ \E mode \in AscertainmentModes : Binarize(mode)
    \/ \E mode \in AscertainmentModes : BinarizeFn(mode)

SpecOld == InitOld /\ [][NextOld]_vars

\* heap[1].slug_taxa(level); unique_ids raises ValueError on no labels.
SlugTaxa(level, it) ==
    /\ calls < MaxOldCalls
    /\ IF it = <<>>
       THEN heap' = heap
       ELSE heap' = [heap EXCEPT ![1] = slug_taxa(@, it, level)]
    /\ last' = [NoOldCall EXCEPT !.op = "slug_taxa", !.obj = 1, !.arg = level, !.it = it,
                                 !.err = unique_ids(it, level).err]
    /\ calls' = calls + 1
    /\ UNCHANGED <<phyd, result, call, ret>>

\* heap[1].slug_characters(level)
SlugCharacters(level, it) ==
    /\ calls < MaxOldCalls
    /\ IF it = <<>>
       THEN heap' = heap
       ELSE heap' = [heap EXCEPT ![1] = slug_characters(@, it, level)]
    /\ last' = [NoOldCall EXCEPT !.op = "slug_characters", !.obj = 1, !.arg = level, !.it = it,
                                 !.err = unique_ids(it, level).err]
    /\ calls' = calls + 1
    /\ UNCHANGED <<phyd, result, call, ret>>

\* Labels that slugging changes, or maps to one slug.
SlugTaxonNames == { <<"a">>, <<"A">>, <<"a", " ", "b">> }
SlugCharNames == { <<"c">>, <<"c", "#">> }
SlugStates == { <<"0">>, <<"1">> }

NextSlug ==
    \/ \E t \in SlugTaxonNames, c \in SlugCharNames, v \in SlugStates :
          AddState(1, t, c, v, None)
    \/ \E level \in Levels, it \in Orders(heap[1].taxa) : SlugTaxa(level, it)
    \/ \E level \in Levels, it \in Orders(heap[1].characters) : SlugCharacters(level, it)

SpecSlug == InitOld /\ [][NextSlug]_vars

----------------------------------------------------------------------------
(* Claims about PhyloData.extend, Character.states and PhyloData.matrix.   *)

\* The key under which extend stores an observation: the charset defaults to
\* the character when none is given.
KeyOf(taxon, cs, character) == <<taxon, IF cs = None THEN character ELSE cs, character>>

\* C1: after any sequence of extend calls, every observation key's taxon is in
\* the taxa set, every (charset, character) of an observation key exists in the
\* character map, and the token just added is in that key's observation set.
C1_ExtendKeepsReferences ==
    /\ \A k \in DOMAIN phyd.obs :
          /\ k[1] \in phyd.taxa
          /\ k[2] \in DOMAIN phyd.charset
          /\ k[3] \in DOMAIN phyd.charset[k[2]]
    /\ last.op = "extend" =>
          LET k == KeyOf(last.taxon, last.charset, last.character)
          IN  k \in DOMAIN phyd.obs /\ last.value \in phyd.obs[k]

\* C1's case: an extend with an explicit charset, on data that already holds
\* another observation key.
C1_Witness ==
    /\ last.op = "extend"
    /\ last.charset # None
    /\ Cardinality(DOMAIN phyd.obs) >= 2
    /\ Cardinality(phyd.taxa) = 2

IsSortedNoDup(seq) == \A i \in 1..(Len(seq) - 1) : StrLess(seq[i], seq[i + 1])

\* C2: the `states` view of every Character is sorted, has no duplicates and
\* never contains the missing ("?") or the gap ("-") token.
C2_StatesExcludeSentinels ==
    \A cs \in DOMAIN phyd.charset : \A ch \in DOMAIN phyd.charset[cs] :
        LET sts == Character_states(phyd.charset[cs][ch])
        IN  /\ IsSortedNoDup(sts)
            /\ MISSING \notin Range(sts)
            /\ GAP \notin Range(sts)

\* The states of a character without the missing token.
NonMissing(char) == char \ {MISSING}

\* The symbol the claims give a state: the k-th non-missing state, in sorted
\* order, has the k-th character of the alphabet.
ClaimedSymbol(char, o) == <<Alphabet[Index(Sorted(NonMissing(char)), o) + 1]>>

\* The cell C3 describes for one (taxon, character) pair.
ClaimedCell(self, p, taxon, it) ==
    LET obs == GetObs(self, <<taxon, p[1], p[2]>>)
        char == self.charset[p[1]][p[2]]
        lst == Iterate(obs, it)
    IN  IF obs = {} THEN <<"-">>
        ELSE IF obs = {MISSING} THEN <<"?">>
        ELSE IF Cardinality(obs) = 1 THEN ClaimedSymbol(char, lst[1])
        ELSE <<"(">> \o Join(<<",">>, [i \in 1..Len(lst) |->
                                          IF lst[i] = MISSING THEN <<"?">>
                                          ELSE ClaimedSymbol(char, lst[i])]) \o <<")">>

ClaimedMatrix(self, it) ==
    LET chars == characters(self)
        rows == taxa(self)
    IN  [i \in 1..Len(rows) |->
            <<rows[i], Concat([j \in 1..Len(chars) |-> ClaimedCell(self, chars[j], rows[i], it)])>>]

\* C3: matrix emits, for each character in sorted order and each taxon in
\* sorted order, exactly one cell: "-" without observation, "?" for the
\* observation set {"?"}, the mapped symbol for one observation and a
\* parenthesized comma-joined list for several.
C3_MatrixEmitsOneCellPerPair ==
    \A it \in IterOrders : matrix(phyd, it) = ClaimedMatrix(phyd, it)

\* C4: for a character with n non-missing states, every symbol matrix produces
\* for a state of that character is among the first n alphabet characters, the
\* k-th state in sorted order having the k-th alphabet character, also when
\* "?" is observed for the character.
C4_SymbolsAmongFirstN ==
    \A it \in IterOrders : \A k \in DOMAIN phyd.obs :
        LET p == <<k[2], k[3]>>
            char == phyd.charset[k[2]][k[3]]
            n == Cardinality(NonMissing(char))
            lst == Iterate(phyd.obs[k], it)
            r == obs_repr(phyd, p, k[1], it)
        IN  \A i \in 1..Len(lst) :
                lst[i] # MISSING =>
                    /\ r[i] = ClaimedSymbol(char, lst[i])
                    /\ \E j \in 1..n : r[i] = <<Alphabet[j]>>

----------------------------------------------------------------------------
(* Claims about binarize.                                                  *)

\* The non-missing states observed for a character of the data.
NonMissingStates(self, character) ==
    UNION { self.states[k] \ {MISSING} : k \in { j \in DOMAIN self.states : j[2] = character } }

\* Whether every state of every character is one of A, C, G, T.
AllGenetic(self) ==
    \A c \in self.characters :
        NonMissingStates(self, c) \subseteq { <<"A">>, <<"C">>, <<"G">>, <<"T">> }

\* Whether ascertainment is active for a mode and an input.
AscertainmentActive(mode, self) ==
    mode = "true" \/ (mode = "default" /\ ~AllGenetic(self))

\* C5: for every taxon, character and non-missing state s of the character,
\* the result holds under `<character>_<s>` the value "1" if s was observed
\* for the taxon, "0" if it was not but the taxon has data for the character,
\* "?" if the taxon's only observation is the missing token, and nothing if
\* the taxon has no data for the character.
C5_BinarizeValues ==
    last.op = "binarize" =>
        \A t \in heap[1].taxa : \A c \in heap[1].characters :
            \A s \in NonMissingStates(heap[1], c) :
                LET obs == GetSet(heap[1].states, <<t, c>>)
                    got == GetSet(heap[result].states, <<t, StateKey(c, s)>>)
                IN  got = IF obs = {} THEN {}
                          ELSE IF obs = {MISSING} THEN { <<"?">> }
                          ELSE IF s \in obs THEN { <<"1">> }
                          ELSE { <<"0">> }

\* C6: when ascertainment is active, the result holds for every taxon and
\* every character of the input exactly one observation, "0", under
\* `<character>_ASCERTAINMENT`, whatever the states of the character.
C6_OneAscertainmentPerPair ==
    (last.op = "binarize" /\ AscertainmentActive(last.arg, heap[1])) =>
        \A t \in heap[1].taxa : \A c \in heap[1].characters :
            GetSet(heap[result].states, <<t, AscertainmentKey(c)>>) = { <<"0">> }

\* C7: mode `false` never emits an _ASCERTAINMENT column, mode `true` always
\* does, and mode `default` emits them unless every character is genetic.
C7_AscertainmentFollowsMode ==
    last.op = "binarize" =>
        LET emitted == \E k \in DOMAIN heap[result].states :
                          \E c \in heap[1].characters : k[2] = AscertainmentKey(c)
        IN  IF AscertainmentActive(last.arg, heap[1])
            THEN \A t \in heap[1].taxa : \A c \in heap[1].characters :
                    NonMissingStates(heap[1], c) # {} =>
                        <<t, AscertainmentKey(c)>> \in DOMAIN heap[result].states
            ELSE ~emitted

----------------------------------------------------------------------------
(* Claims about slugging.                                                  *)

\* C9: after slug_taxa (slug_characters) every observation key carries the
\* slugged label of its original taxon (character), so that each key's taxon
\* (character) is in the updated set, and the observed state sets are unchanged.
C9_SlugRewritesKeys ==
    [][ (calls' = calls + 1 /\ last'.op \in {"slug_taxa", "slug_characters"}
                            /\ last'.err = "none") =>
          LET m == SlugMap(last'.it, last'.arg)
              i == IF last'.op = "slug_taxa" THEN 1 ELSE 2
              Rekey(k) == [k EXCEPT ![i] = m[k[i]]]
              labels == IF i = 1 THEN heap'[1].taxa ELSE heap'[1].characters
          IN  /\ labels = Range(m)
              /\ \A k \in DOMAIN heap'[1].states : k[i] \in labels
              /\ \A k \in DOMAIN heap[1].states :
                    /\ k[i] \in DOMAIN m
                    /\ Rekey(k) \in DOMAIN heap'[1].states
                    /\ heap'[1].states[Rekey(k)] = heap[1].states[k]
      ]_vars

\* C10: unique_ids returns a sequence of the length and order of its input,
\* a label whose slug occurs once as the bare slug, and the k-th occurrence
\* (from 0) of a slug that occurs several times as the slug with the k-th
\* suffix of -a, ..., -z, -aa, -ab, ...
RECURSIVE Letters(_)
Letters(k) ==
    IF k < 26 THEN <<Lowercase[k + 1]>>
    ELSE Letters((k \div 26) - 1) \o <<Lowercase[(k % 26) + 1]>>

ClaimedIds(labels, level) ==
    [ i \in 1..Len(labels) |->
        LET sl == slug(labels[i], level)
            n == Cardinality({ j \in 1..Len(labels) : slug(labels[j], level) = sl })
            k == Cardinality({ j \in 1..(i - 1) : slug(labels[j], level) = sl })
        IN  IF n = 1 THEN sl ELSE sl \o <<"-">> \o Letters(k) ]

C10_UniqueIdsSuffixes ==
    ret # <<>> => (ret.err = "none" /\ ret.value = ClaimedIds(call.labels, call.level))

\* The same on the lists that hold at least one label.
UniqueIdsOnNonEmpty ==
    (ret # <<>> /\ call.labels # <<>>) =>
        (ret.err = "none" /\ ret.value = ClaimedIds(call.labels, call.level))

\* C11: for every non-empty list of labels and every level, the outputs of
\* unique_ids are pairwise distinct, also when an input label equals another
\* label's slug with a suffix.
C11_UniqueIdsDistinct ==
    (ret # <<>> /\ call.labels # <<>>) =>
        /\ ret.err = "none"
        /\ \A i \in 1..Len(ret.value) : \A j \in 1..Len(ret.value) :
              i # j => ret.value[i] # ret.value[j]

----------------------------------------------------------------------------
(* common.slug as a function of a label and a level.                       *)

MaxLabelLen == 3

\* The label of tests/test_common.py, "Åland (#3) [?]".
AlandLabel ==
    <<"A_ring", "l", "a", "n", "d", " ", "(", "#", "3", ")", " ", "[", "?", "]">>

\* Characters of the labels: a letter of each case, a digit, whitespace, the
\* two kept punctuation marks, a dropped one and a transliterated one.
LabelChars == {"a", "B", "3", " ", "tab", "_", "-", "#", "e_acute"}

SlugLabels == ListsUpTo({"a", "B", " ", "#", "e_acute"}, MaxLabelLen)
                 \cup { <<c>> : c \in LabelChars } \cup { AlandLabel }

\* The levels of the interface and one that is none of them.
SlugLevels == Levels \cup { "WRONG LABEL" }

InitSlugFn ==
    /\ call \in [fn : {"slug"}, label : SlugLabels, level : SlugLevels]
    /\ ret = <<>>
    /\ phyd = NewPhyloData /\ last = NoIdle /\ calls = 0
    /\ IdleOld

\* slug(label, level): no branch of the function raises.
Slug ==
    /\ ret = <<>>
    /\ ret' = Returned(slug(call.label, call.level))
    /\ UNCHANGED <<phyd, heap, result, last, calls, call>>

NextSlugFn == Slug

SpecSlugFn == InitSlugFn /\ [][NextSlugFn]_vars

\* C12: slug("Åland (#3) [?]", "simple") is "Aland_3".
C12_SlugSimpleAland ==
    (ret # <<>> /\ call.label = AlandLabel /\ call.level = "simple") =>
        (ret.err = "none" /\ ret.value = <<"A", "l", "a", "n", "d", "_", "3">>)

\* C13: slug("Åland (#3) [?]", "simple") is "Aland3", as test_slug asserts.
C13_SlugSimpleAlandTest ==
    (ret # <<>> /\ call.label = AlandLabel /\ call.level = "simple") =>
        (ret.err = "none" /\ ret.value = <<"A", "l", "a", "n", "d", "3">>)

\* C14: slug fails with an error, and returns no label, for every level
\* other than none, simple and full.
C14_SlugRejectsUnknownLevel ==
    (ret # <<>> /\ call.level \notin Levels) =>
        (ret.err # "none" /\ ret.value = <<>>)

----------------------------------------------------------------------------
(* common.indexes2ranges                                                   *)

MaxIndexes == 4
MaxIndex == 4

\* sorted(indexes), on integers
RECURSIVE SortInts(_)
SortInts(seq) ==
    IF seq = <<>> THEN <<>>
    ELSE LET m == CHOOSE i \in 1..Len(seq) : \A j \in 1..Len(seq) : seq[i] <= seq[j]
         IN  <<seq[m]>> \o SortInts([k \in 1..(Len(seq) - 1) |-> IF k < m THEN seq[k] ELSE seq[k + 1]])

\* str(n) and "%i" % n
RECURSIVE IntStr(_)
IntStr(n) ==
    IF n < 0 THEN <<"-">> \o IntStr(0 - n)
    ELSE IF n < 10 THEN <<Digits[n + 1]>>
    ELSE IntStr(n \div 10) \o <<Digits[(n % 10) + 1]>>

\* start and end hold None, written <<>>, or an integer n, written <<n>>;
\* `not start` holds of None and of 0.
NotInt(o) == o = <<>> \/ o[1] = 0

\* The loop over the sorted indexes, from position i on.
RECURSIVE RangesLoop(_, _, _, _, _)
RangesLoop(indexes, i, start, end, ranges) ==
    IF i > Len(indexes) THEN [start |-> start, end |-> end, ranges |-> ranges]
    ELSE LET idx == indexes[i]
         IN  IF NotInt(start)
             THEN RangesLoop(indexes, i + 1, <<idx>>, end, ranges)
             ELSE IF NotInt(end)
                  THEN IF idx > start[1] + 1
                       THEN RangesLoop(indexes, i + 1, <<idx>>, end,
                                       Append(ranges, <<start[1], start[1]>>))
                       ELSE RangesLoop(indexes, i + 1, start, <<idx>>, ranges)
                  ELSE IF idx = end[1] + 1
                       THEN RangesLoop(indexes, i + 1, start, <<idx>>, ranges)
                       ELSE RangesLoop(indexes, i + 1, <<idx>>, <<>>,
                                       Append(ranges, <<start[1], end[1]>>))

\* "%i-%i" % (start, end) if start != end else str(start)
RangeStr(r) ==
    IF r[1] # r[2] THEN IntStr(r[1]) \o <<"-">> \o IntStr(r[2]) ELSE IntStr(r[1])

\* indexes2ranges(indexes, string): indexes[-1] of an empty list raises
\* IndexError; on a list that holds an index, start is an integer at the end.
indexes2ranges(indexes, string) ==
    LET sorted == SortInts(indexes)
        loop == RangesLoop(sorted, 1, <<>>, <<>>, <<>>)
        ranges == Append(loop.ranges, <<loop.start[1], sorted[Len(sorted)]>>)
    IN  IF indexes = <<>> THEN [err |-> "IndexError", value |-> <<>>]
        ELSE IF ~string THEN Returned(ranges)
        ELSE Returned(Join(<<",", " ">>, [k \in 1..Len(ranges) |-> RangeStr(ranges[k])]))

IndexInputs == ListsUpTo(0..MaxIndex, MaxIndexes)

InitRanges ==
    /\ call \in [fn : {"indexes2ranges"}, indexes : IndexInputs, string : BOOLEAN]
    /\ ret = <<>>
    /\ phyd = NewPhyloData /\ last = NoIdle /\ calls = 0
    /\ IdleOld

Indexes2Ranges ==
    /\ ret = <<>>
    /\ ret' = indexes2ranges(call.indexes, call.string)
    /\ UNCHANGED <<phyd, heap, result, last, calls, call>>

NextRanges == Indexes2Ranges

SpecRanges == InitRanges /\ [][NextRanges]_vars


\* The maximal runs of consecutive integers of a set, in ascending order.
RECURSIVE MaximalRuns(_)
MaximalRuns(S) ==
    IF S = {} THEN <<>>
    ELSE LET a == CHOOSE x \in S : \A y \in S : x <= y
             b == CHOOSE x \in S : /\ \A y \in a..x : y \in S
                                   /\ (x + 1) \notin S
                                   /\ x >= a
         IN  <<<<a, b>>>> \o MaximalRuns(S \ (a..b))

RunText(r) == IF r[1] = r[2] THEN IntStr(r[1]) ELSE IntStr(r[1]) \o <<"-">> \o IntStr(r[2])

\* C15: for every non-empty list of indexes, indexes2ranges returns the
\* maximal runs of consecutive integers of the sorted input in ascending
\* order, a run of one index as that index and a longer run as start-end,
\* joined by ", ", so that the ranges cover exactly the input indexes.
C15_IndexesToMaximalRuns ==
    (ret # <<>> /\ call.indexes # <<>> /\ call.string) =>
        LET runs == MaximalRuns(Range(call.indexes))
        IN  /\ ret.err = "none"
            /\ ret.value = Join(<<",", " ">>, [k \in 1..Len(runs) |-> RunText(runs[k])])

\* The same on the lists of distinct indexes from 1 on, which are the lists
\* build_assumption_block passes.
RangesOfDistinctPositive ==
    (ret # <<>> /\ call.indexes # <<>> /\ call.string
       /\ 0 \notin Range(call.indexes)
       /\ Cardinality(Range(call.indexes)) = Len(call.indexes)) =>
        LET runs == MaximalRuns(Range(call.indexes))
        IN  /\ ret.err = "none"
            /\ ret.value = Join(<<",", " ">>, [k \in 1..Len(runs) |-> RunText(runs[k])])

----------------------------------------------------------------------------
(* phylodata.Character as an object of its own; object 1 is the character. *)

MaxCharCalls == 3

CharTokens == { <<"0">>, <<"1">>, <<"2">>, MISSING }

\* Character.binary(): `self.states == ("0", "1")`. The method is_binary
\* that build_nexus calls is defined nowhere; binary is the method there is.
binary(char) == Character_states(char) = << <<"0">>, <<"1">> >>

InitChar ==
    /\ heap \in { (1 :> Character(states)) : states \in SUBSET CharTokens }
    /\ result = 0
    /\ last = NoOldCall
    /\ calls = 0
    /\ phyd = NewPhyloData
    /\ IdleFn

\* heap[1].add_state(state)
CharAddState(state) ==
    /\ calls < MaxCharCalls
    /\ heap' = [heap EXCEPT ![1] = Character_add_state(@, state)]
    /\ last' = [NoOldCall EXCEPT !.op = "add_state", !.obj = 1]
    /\ calls' = calls + 1
    /\ UNCHANGED <<phyd, result, call, ret>>

\* heap[1].binary()
Binary ==
    /\ calls < MaxCharCalls
    /\ ret' = Returned(binary(heap[1]))
    /\ last' = [NoOldCall EXCEPT !.op = "binary", !.obj = 1]
    /\ calls' = calls + 1
    /\ UNCHANGED <<phyd, heap, result, call>>

NextChar ==
    \/ \E state \in CharTokens : CharAddState(state)
    \/ Binary

SpecChar == InitChar /\ [][NextChar]_vars

\* C16: is_binary holds of a character if and only if its states are a subset
\* of {"0", "1"}, so also of a character whose only state is "0" or "1".
C16_BinaryIffSubset ==
    last.op = "binary" =>
        (ret.value <=> (Range(Character_states(heap[1])) \subseteq { <<"0">>, <<"1">> }))

----------------------------------------------------------------------------
(* tabular.build_tabular                                                   *)

\* str.startswith(prefix)
StartsWith(s, prefix) ==
    Len(prefix) <= Len(s) /\ SubSeq(s, 1, Len(prefix)) = prefix

\* `sub in s`
RECURSIVE Contains(_, _)
Contains(s, sub) ==
    StartsWith(s, sub) \/ (s # <<>> /\ Contains(Tail(s), sub))

\* s.replace(old, ""), for a non-empty old
RECURSIVE Remove(_, _)
Remove(s, old) ==
    IF s = <<>> THEN <<>>
    ELSE IF StartsWith(s, old) THEN Remove(SubSeq(s, Len(old) + 1, Len(s)), old)
    ELSE <<Head(s)>> \o Remove(Tail(s), old)

ASCERTAINMENT == AscertainmentKey(<<>>)

\* The key of the final sort: (e[col_char].replace("_ASCERTAINMENT", ""),
\* "_ASCERTAINMENT" in e[col_char], e[col_taxa], e[col_state])
TabularKey(e) ==
    << Remove(e.char, ASCERTAINMENT), Contains(e.char, ASCERTAINMENT), e.taxon, e.state >>

\* Python's `<=` on these keys; False sorts before True.
TabularKeyLeq(k, l) ==
    \/ StrLess(k[1], l[1])
    \/ k[1] = l[1] /\ ~k[2] /\ l[2]
    \/ k[1] = l[1] /\ k[2] = l[2] /\ StrLess(k[3], l[3])
    \/ k[1] = l[1] /\ k[2] = l[2] /\ k[3] = l[3] /\ StrLeq(k[4], l[4])

\* sorted(output, key=...): the sort is stable.
RECURSIVE SortRows(_)
SortRows(output) ==
    IF output = <<>> THEN <<>>
    ELSE LET m == CHOOSE i \in 1..Len(output) :
                    /\ \A j \in 1..Len(output) :
                          TabularKeyLeq(TabularKey(output[i]), TabularKey(output[j]))
                    /\ \A j \in 1..(i - 1) :
                          ~TabularKeyLeq(TabularKey(output[j]), TabularKey(output[i]))
         IN  <<output[m]>> \o
             SortRows([k \in 1..(Len(output) - 1) |-> IF k < m THEN output[k] ELSE output[k + 1]])

\* The error raised inside a call, whatever it had computed.
Raised(name) == [err |-> name, value |-> <<>>]

\* build_tabular, lines 136 to 173: the rows, sorted. taxa_seq and chars
\* are phyd.taxa and phyd.characters as the loops and zip see them,
\* get[taxon, character] is phyd[taxon, character], and it is the order in
\* which the state sets are iterated.
TabularOutput(get, taxa_seq, chars, args, it) ==
    LET taxa_ids == unique_ids(taxa_seq, args.slug_taxa)
        char_ids == unique_ids(chars, args.slug_chars)
        \* later entries of a dict comprehension win
        taxa_map == [ s \in Range(taxa_seq) |->
                        taxa_ids.value[CHOOSE i \in 1..Len(taxa_seq) :
                            taxa_seq[i] = s /\ \A j \in (i + 1)..Len(taxa_seq) : taxa_seq[j] # s] ]
        char_map == [ s \in Range(chars) |->
                        char_ids.value[CHOOSE i \in 1..Len(chars) :
                            chars[i] = s /\ \A j \in (i + 1)..Len(chars) : chars[j] # s] ]
        RowsOf(character, taxon) ==
            LET sts == Iterate(get[<<taxon, character>>], it)
            IN  [ i \in 1..Len(sts) |->
                    [taxon |-> taxa_map[taxon], char |-> char_map[character], state |-> sts[i]] ]
        output == Concat([ c \in 1..Len(chars) |->
                             Concat([ t \in 1..Len(taxa_seq) |-> RowsOf(chars[c], taxa_seq[t]) ]) ])
    IN  [unsorted |-> output, sorted |-> SortRows(output)]

\* build_tabular(phyd, delimiter, args). str_chars tells whether the
\* characters are strings: unidecode (at the levels simple and full) and
\* str.replace (in the sort key of a row) raise on the (charset_id, char_id)
\* tuples of phylodata.PhyloData.
build_tabular(get, taxa_seq, chars, str_chars, delimiter, args, it) ==
    LET col_taxa == <<"T", "a", "x", "o", "n">>
        col_char == <<"C", "h", "a", "r", "a", "c", "t", "e", "r">>
        col_state == <<"S", "t", "a", "t", "e">>
        taxa_ids == unique_ids(taxa_seq, args.slug_taxa)
        char_ids == unique_ids(chars, args.slug_chars)
        output == TabularOutput(get, taxa_seq, chars, args, it)
        fieldnames == <<col_taxa, col_char, col_state>>
        buffer == [ i \in 1..Len(output.sorted) |->
                      Join(delimiter, << output.sorted[i].taxon, output.sorted[i].char,
                                         output.sorted[i].state >>) ]
    IN  IF taxa_ids.err # "none" THEN taxa_ids
        ELSE IF ~str_chars /\ args.slug_chars \in {"simple", "full"} THEN Raised("unidecode")
        ELSE IF char_ids.err # "none" THEN char_ids
        ELSE IF ~str_chars /\ output.unsorted # <<>> THEN Raised("AttributeError")
        ELSE Returned(Join(<<"nl">>, <<Join(delimiter, fieldnames)>> \o buffer))

\* build_tabular on a phylodata.PhyloData: taxa is a sorted tuple, characters
\* the sorted list of (charset_id, char_id) tuples, and phyd[taxon, character]
\* looks the pair (taxon, (charset_id, char_id)) up in _obs.
TabularArgs == [slug_taxa : {"none", "simple"}, slug_chars : {"none", "simple"}]

build_tabular_phyd(self, args, it) ==
    build_tabular([ tc \in Range(taxa(self)) \X Range(characters(self)) |-> GetObs(self, tc) ],
                  taxa(self), characters(self),
                  FALSE, <<",">>, args, it)

\* The data is read, then written once: no extend follows the rendering.
TabExtend(taxon, cs, character, value) ==
    /\ ret = <<>>
    /\ Extend(taxon, cs, character, value)

\* build_tabular(phyd, ",", args)
BuildTabular(args, it) ==
    /\ ret = <<>>
    /\ ret' = build_tabular_phyd(phyd, args, it)
    /\ call' = [fn |-> "build_tabular", args |-> args]
    /\ last' = [NoCall EXCEPT !.op = "build_tabular"]
    /\ UNCHANGED <<phyd, heap, result, calls>>

\* phyd.matrix()
Matrix(it) ==
    /\ ret = <<>>
    /\ phyd.charset # <<>>
    /\ ret' = Returned(matrix(phyd, it))
    /\ call' = [fn |-> "matrix"]
    /\ last' = [NoCall EXCEPT !.op = "matrix"]
    /\ UNCHANGED <<phyd, heap, result, calls>>

NextTab ==
    \/ \E t \in TaxonNames, cs \in CharsetArgs, c \in CharNames, v \in Tokens :
          TabExtend(t, cs, c, v)
    \/ \E args \in TabularArgs, it \in IterOrders : BuildTabular(args, it)
    \/ \E it \in IterOrders : Matrix(it)

SpecTab == Init /\ [][NextTab]_vars


\* C17: the matrix projection and the tabular output of a PhyloData depend
\* on its observations only, not on the order of the extend calls nor on the
\* iteration order of the underlying sets: every rendering of the same
\* observations gives the same result, polymorphic cells included.
C17_RenderingDeterministic ==
    /\ last.op = "matrix" =>
          \A it \in IterOrders : ret = Returned(matrix(phyd, it))
    /\ last.op = "build_tabular" =>
          \A it \in IterOrders : ret = build_tabular_phyd(phyd, call.args, it)

\* The observations of a PhyloData, as (taxon, charset, character, state).
Observations(self) ==
    UNION { { <<k[1], k[2], k[3], s>> : s \in self.obs[k] } : k \in DOMAIN self.obs }

\* C19: build_tabular writes a header row followed by exactly one row per
\* observed state of every (taxon, character) pair: a pair with k observed
\* states yields k rows, a pair with no observation none. Stated of data
\* that holds an observation.
C19_OneRowPerObservedState ==
    (last.op = "build_tabular" /\ Observations(phyd) # {}) =>
        /\ ret.err = "none"
        /\ StartsWith(ret.value, <<"T", "a", "x", "o", "n", ",", "C", "h", "a", "r", "a", "c",
                                   "t", "e", "r", ",", "S", "t", "a", "t", "e">>)
        /\ Cardinality({ i \in 1..Len(ret.value) : ret.value[i] = "nl" })
              = Cardinality(Observations(phyd))


\* build_tabular on an internal.PhyloData: taxa and characters are sets of
\* strings, iterated in some order, and phyd[taxon, character] is
\* self.states[taxon, character].
build_tabular_old(self, args, it_t, it_c, it) ==
    build_tabular([ tc \in Range(it_t) \X Range(it_c) |-> GetSet(self.states, tc) ], it_t, it_c,
                  TRUE, <<",">>, args, it)

\* The states an object holds.
StatesIn(self) == UNION { self.states[k] : k \in DOMAIN self.states }

\* build_tabular(heap[obj], ",", args). Reading self.states[key] of the
\* defaultdict inserts an empty set under every key the loops ask for.
BuildTabularOld(obj, args, it_t, it_c, it) ==
    /\ ret = <<>>
    /\ obj \in DOMAIN heap
    /\ ret' = build_tabular_old(heap[obj], args, it_t, it_c, it)
    /\ heap' = IF it_t = <<>> THEN heap
               ELSE [heap EXCEPT ![obj].states =
                        [ k \in (Range(it_t) \X Range(it_c)) \cup DOMAIN @ |-> GetSet(@, k) ]]
    /\ call' = [fn |-> "build_tabular", args |-> args, it_t |-> it_t, it_c |-> it_c]
    /\ last' = [NoOldCall EXCEPT !.op = "build_tabular", !.obj = obj]
    /\ UNCHANGED <<phyd, result, calls>>

\* Data is added and binarized before it is written.
NextTabOld ==
    \/ \E t \in TaxonNames, v \in OldStates :
          ret = <<>> /\ AddState(1, t, <<"c", "1">>, v, None)
    \/ ret = <<>> /\ Binarize("default")
    \/ \E obj \in DOMAIN heap, args \in TabularArgs :
          \E it_t \in Orders(heap[obj].taxa), it_c \in Orders(heap[obj].characters),
             it \in Orders(StatesIn(heap[obj])) :
                BuildTabularOld(obj, args, it_t, it_c, it)

SpecTabOld == InitOld /\ [][NextTabOld]_vars

\* The character a binarized column belongs to: the label up to its last "_".
RECURSIVE GroupOf(_)
GroupOf(label) ==
    IF label = <<>> \/ label[Len(label)] = "_" THEN SubSeq(label, 1, Len(label) - 1)
    ELSE GroupOf(SubSeq(label, 1, Len(label) - 1))

\* On an internal.PhyloData, build_tabular does write one row per observed
\* state, the rows of an _ASCERTAINMENT character before those of the
\* per-state characters of its group, whatever the iteration orders.
TabularRowsOfInternalData ==
    (last.op = "build_tabular" /\ heap[last.obj].taxa # {}) =>
        LET self == heap[last.obj]
            rows == TabularOutput([ tc \in Range(call.it_t) \X Range(call.it_c) |-> GetSet(self.states, tc) ],
                                  call.it_t, call.it_c, call.args,
                                  CHOOSE it \in Orders(StatesIn(self)) : TRUE).sorted
            observed == UNION { { <<k[1], k[2], s>> : s \in self.states[k] } : k \in DOMAIN self.states }
        IN  /\ ret.err = "none"
            /\ Cardinality({ i \in 1..Len(ret.value) : ret.value[i] = "nl" }) = Cardinality(observed)
            /\ Len(rows) = Cardinality(observed)
            /\ \A i \in 1..Len(rows) : \A j \in 1..Len(rows) :
                  ( /\ Contains(rows[i].char, ASCERTAINMENT)
                    /\ ~Contains(rows[j].char, ASCERTAINMENT)
                    /\ GroupOf(rows[j].char) = GroupOf(rows[i].char) ) => i < j


----------------------------------------------------------------------------
(* tabular.read_data_tabular                                               *)

\* s.split(sep), for a separator of one character
RECURSIVE Split(_, _)
Split(s, sep) ==
    IF \A i \in 1..Len(s) : s[i] # sep THEN <<s>>
    ELSE LET i == CHOOSE k \in 1..Len(s) : s[k] = sep /\ \A j \in 1..(k - 1) : s[j] # sep
         IN  <<SubSeq(s, 1, i - 1)>> \o Split(SubSeq(s, i + 1, Len(s)), sep)

\* The candidates of _get_input_column_names, in the order they are tried.
TaxaCandidates ==
    << <<"t", "a", "x", "o", "n">>,
       <<"s", "p", "e", "c", "i", "e", "s">>,
       <<"l", "a", "n", "g", "u", "a", "g", "e">>,
       <<"d", "o", "c", "u", "l", "e", "c", "t">>,
       <<"m", "a", "n", "u", "s", "c", "r", "i", "p", "t">>,
       <<"w", "i", "t", "n", "e", "s", "s">> >>
CharCandidates ==
    << <<"c", "h", "a", "r", "a", "c", "t", "e", "r">>,
       <<"f", "e", "a", "t", "u", "r", "e">>,
       <<"p", "r", "o", "p", "e", "r", "t", "y">>,
       <<"p", "o", "s", "i", "t", "i", "o", "n">> >>
StateCandidates ==
    << <<"s", "t", "a", "t", "e">>,
       <<"v", "a", "l", "u", "e">>,
       <<"o", "b", "s", "e", "r", "v", "a", "t", "i", "o", "n">>,
       <<"c", "o", "g", "n", "a", "t", "e">>,
       <<"l", "e", "s", "s", "o", "n">>,
       <<"r", "e", "a", "d", "i", "n", "g">> >>

\* The nested loops `for cand ...: for column ...: if not col and cand in
\* slug(column, "full"): col = column`: the first match, candidates first.
RECURSIVE InferColumn(_, _, _, _, _)
InferColumn(col, cands, columns, c, k) ==
    IF ~Falsy(col) \/ c > Len(cands) THEN col
    ELSE IF k > Len(columns) THEN InferColumn(col, cands, columns, c + 1, 1)
    ELSE IF Contains(slug(columns[k], "full"), cands[c]) THEN columns[k]
    ELSE InferColumn(col, cands, columns, c, k + 1)

\* _get_input_column_names(args, data); header holds the keys of data[0] in
\* their order, were there a data[0].
_get_input_column_names(args, header, data) ==
    LET given == <<args.i_taxa, args.i_char, args.i_state>>
        infer == \E i \in 1..3 : Falsy(given[i])
        columns == SelectSeq(header, LAMBDA col : \A i \in 1..3 : col # given[i])
        column_names ==
            IF ~infer THEN given
            ELSE << InferColumn(args.i_taxa, TaxaCandidates, columns, 1, 1),
                    InferColumn(args.i_char, CharCandidates, columns, 1, 1),
                    InferColumn(args.i_state, StateCandidates, columns, 1, 1) >>
    IN  IF infer /\ data = <<>> THEN Raised("IndexError")
        ELSE IF Cardinality(Range(column_names)) < 3 THEN Raised("AssertionError")
        ELSE Returned(column_names)

\* phyd.extend(key, value) as a call: `taxon, charset, character = key`
\* raises ValueError on a key that is not of three parts.
extend_call(self, key, value) ==
    IF Len(key) # 3 THEN Raised("ValueError") ELSE Returned(extend(self, key, value))

\* The loop `for entry in source: phyd.extend((entry[col_taxa],
\* entry[col_char]), entry[col_vals])`
RECURSIVE ReadEntries(_, _, _, _)
ReadEntries(self, source, cols, i) ==
    IF i > Len(source) THEN Returned(self)
    ELSE IF \E c \in 1..3 : cols[c] \notin DOMAIN source[i] THEN Raised("KeyError")
    ELSE LET r == extend_call(self, <<source[i][cols[1]], source[i][cols[2]]>>,
                              source[i][cols[3]])
         IN  IF r.err # "none" THEN r ELSE ReadEntries(r.value, source, cols, i + 1)

\* {key: value for key, value in zip(header, row.split(delimiter))}
ZipDict(header, fields) ==
    LET n == IF Len(header) < Len(fields) THEN Len(header) ELSE Len(fields)
    IN  [ key \in { header[i] : i \in 1..n } |->
            fields[CHOOSE i \in 1..n : header[i] = key /\ \A j \in (i + 1)..n : header[j] # key] ]

\* The keys of a dict in insertion order.
RECURSIVE Keys(_)
Keys(header) ==
    IF header = <<>> THEN <<>>
    ELSE LET rest == Keys(SubSeq(header, 1, Len(header) - 1))
             x == header[Len(header)]
         IN  IF x \in Range(rest) THEN rest ELSE Append(rest, x)

\* read_data_tabular(source_str, delimiter, args)
read_data_tabular(source_str, delimiter, args) ==
    LET rows == SelectSeq(Split(Remove(source_str, <<"cr">>), "nl"),
                          LAMBDA row : Strip(row) # <<>>)
        header == Split(rows[1], delimiter)
        source == [ i \in 1..(Len(rows) - 1) |-> ZipDict(header, Split(rows[i + 1], delimiter)) ]
        cols == _get_input_column_names(args, Keys(header), source)
    IN  IF rows = <<>> THEN Raised("IndexError")
        ELSE IF cols.err # "none" THEN cols
        ELSE ReadEntries(NewPhyloData, source, cols.value, 1)


----------------------------------------------------------------------------
(* nexus.build_nexus and nexus.read_data_nexus                             *)

\* build_character_block(phyd) starts with `phyd.charset.values()`; a
\* phylodata.PhyloData has the attributes _taxa, _charset and _obs and the
\* properties taxa, characters, cardinality and symbols, no charset, so the
\* attribute lookup raises whatever the data is.
build_character_block(self) == Raised("AttributeError")

\* build_taxa_block(phyd): the TAXA block, NTAX and the sorted labels.
build_taxa_block(self) ==
    LET labels == taxa(self)
    IN  Join(<<"nl">>,
             << <<"B", "E", "G", "I", "N", " ", "T", "A", "X", "A", ";">>,
                <<" ", " ", " ", " ", "D", "I", "M", "E", "N", "S", "I", "O", "N", "S", " ",
                  "N", "T", "A", "X", "=">> \o IntStr(Len(labels)) \o <<";">>,
                <<" ", " ", " ", " ", "T", "A", "X", "L", "A", "B", "E", "L", "S">>,
                Join(<<"nl">>, [ i \in 1..Len(labels) |->
                                   <<" ", " ", " ", " ", " ", " ", " ", " ">> \o labels[i] ]),
                <<" ", " ", " ", " ", ";">>,
                <<"E", "N", "D", ";">> >>)

\* build_nexus(phyd, args): the components are built in order, the taxa
\* block first; the character block raises before anything is joined.
build_nexus(self) ==
    LET taxa_block == build_taxa_block(self)
        character_block == build_character_block(self)
    IN  IF character_block.err # "none" THEN character_block
        ELSE Returned(Join(<<"nl", "nl">>, <<<<"#", "N", "E", "X", "U", "S">>, taxa_block,
                                             character_block.value>>))

\* read_data_nexus, lines 187 to 215, on the nexus_data parse_nexus hands
\* over: the cells that add to `states`, as (taxon, character, state), or the
\* KeyError of a position no charset covers or no label names. matrix is the
\* dict in its order, as (taxon, vector) pairs; charstate_states its keys.
alm2charset(nexus_data) ==
    LET cs == nexus_data.charset
        covered == UNION { cs[k].start..cs[k].end : k \in 1..Len(cs) }
    IN  [ idx \in covered |->
            cs[CHOOSE k \in 1..Len(cs) :
                  /\ cs[k].start <= idx /\ idx <= cs[k].end
                  /\ \A j \in (k + 1)..Len(cs) : ~(cs[j].start <= idx /\ idx <= cs[j].end)].charset ]

nexus_states(nexus_data) ==
    LET mtx == nexus_data.matrix
        cells == UNION { { <<m, i>> : i \in 1..Len(mtx[m][2]) } : m \in 1..Len(mtx) }
        cell(c) == mtx[c[1]][2][c[2]]
        a2c == alm2charset(nexus_data)
        labels == nexus_data.charstate_labels
        keys == nexus_data.charstate_states
    IN  IF nexus_data.charset # <<>>
        THEN IF \E c \in cells :
                   \/ cell(c) = nexus_data.missing /\ c[2] \notin DOMAIN a2c
                   \/ /\ cell(c) \notin {nexus_data.missing, nexus_data.gap, "0"}
                      /\ (c[2] \notin DOMAIN a2c \/ c[2] \notin DOMAIN labels)
             THEN Raised("KeyError")
             ELSE Returned(
                    { <<mtx[c[1]][1], a2c[c[2]], MISSING>> :
                         c \in { d \in cells : cell(d) = nexus_data.missing } } \cup
                    { <<mtx[c[1]][1], a2c[c[2]], labels[c[2]]>> :
                         c \in { d \in cells : cell(d) \notin {nexus_data.missing, nexus_data.gap, "0"} } })
        ELSE \* zip(nexus_data["charstate_states"], vector)
             Returned(
               { <<mtx[c[1]][1], keys[c[2]], IF cell(c) = nexus_data.missing THEN MISSING ELSE <<cell(c)>> >> :
                    c \in { d \in cells : /\ d[2] <= Len(keys)
                                           /\ (cell(d) = nexus_data.missing \/ cell(d) # nexus_data.gap) } })

\* read_data_nexus, lines 219 to 224: every (taxon, character) of `states`
\* has a state, and the first extend is given a key of two parts.
read_data_nexus_data(nexus_data) ==
    LET sts == nexus_states(nexus_data)
    IN  IF sts.err # "none" THEN sts
        ELSE IF sts.value = {} THEN Returned(NewPhyloData)
        ELSE LET first == CHOOSE s \in sts.value : TRUE
             IN  extend_call(NewPhyloData, <<first[1], first[2]>>, first[3])


----------------------------------------------------------------------------
(* The legs of a conversion from tabular to NEXUS and back.                *)

MaxRows == 2

\* The rows of a tabular source, as (taxon, character, state).
SourceRows == TaxonNames \X CharNames \X { <<"0">>, <<"1">>, <<"a">> }

TabularHeader == <<"T", "a", "x", "o", "n", ",", "C", "h", "a", "r", "a", "c", "t", "e", "r",
                   ",", "S", "t", "a", "t", "e">>

\* The text of a source with the given rows.
TabularSource(rows) ==
    Join(<<"nl">>, <<TabularHeader>> \o [ i \in 1..Len(rows) |-> Join(<<",">>, rows[i]) ])

\* The column arguments: none given, or the three of the header.
ColumnArgs ==
    { [i_taxa |-> None, i_char |-> None, i_state |-> None],
      [i_taxa |-> <<"T", "a", "x", "o", "n">>,
       i_char |-> <<"C", "h", "a", "r", "a", "c", "t", "e", "r">>,
       i_state |-> <<"S", "t", "a", "t", "e">>] }

\* What parse_nexus hands over for a NEXUS text of two characters: binary
\* data without charsets (labels only), multistate data (states listed for
\* each character) and binary data with a charset over both positions.
NexusVectors == [1..2 -> {"0", "1", "?", "-"}]

NexusMatrices ==
    { << <<<<"t", "1">>, v>> >> : v \in NexusVectors } \cup
    { << <<<<"t", "1">>, v>>, <<<<"t", "2">>, w>> >> : v \in NexusVectors, w \in NexusVectors }

NexusLabels == (1 :> <<"c", "1">>) @@ (2 :> <<"c", "2">>)

NexusDatas ==
    [ missing : {"?"}, gap : {"-"}, matrix : NexusMatrices,
      charstate_labels : {NexusLabels},
      charstate_states : { <<>>, << <<"c", "1">>, <<"c", "2">> >> },
      charset : { <<>> } ] \cup
    [ missing : {"?"}, gap : {"-"}, matrix : NexusMatrices,
      charstate_labels : {NexusLabels},
      charstate_states : { <<>> },
      charset : { << [charset |-> <<"g">>, start |-> 1, end |-> 2] >> } ]

InitTrip ==
    /\ call \in [fn : {"read_data_tabular"}, rows : ListsUpTo(SourceRows, MaxRows),
                 args : ColumnArgs]
              \cup [fn : {"read_data_nexus"}, nexus_data : NexusDatas]
    /\ ret = <<>>
    /\ phyd = NewPhyloData
    /\ last = NoIdle
    /\ calls = 0
    /\ IdleOld

\* phyd = read_data_tabular(source, ",", args)
ReadDataTabular ==
    /\ call.fn = "read_data_tabular" /\ last = NoIdle
    /\ LET r == read_data_tabular(TabularSource(call.rows), ",", call.args)
       IN  /\ ret' = r
           /\ phyd' = IF r.err = "none" THEN r.value ELSE phyd
    /\ last' = [op |-> "read_data_tabular"]
    /\ UNCHANGED <<heap, result, calls, call>>

\* build_nexus(phyd, args), on the data that was read
BuildNexus ==
    /\ last.op = "read_data_tabular" /\ ret.err = "none"
    /\ ret' = build_nexus(phyd)
    /\ last' = [op |-> "build_nexus"]
    /\ UNCHANGED <<phyd, heap, result, calls, call>>

\* phyd = read_data_nexus(source, args), after parse_nexus
ReadDataNexus ==
    /\ call.fn = "read_data_nexus" /\ last = NoIdle
    /\ LET r == read_data_nexus_data(call.nexus_data)
       IN  /\ ret' = r
           /\ phyd' = IF r.err = "none" THEN r.value ELSE phyd
    /\ last' = [op |-> "read_data_nexus"]
    /\ UNCHANGED <<heap, result, calls, call>>

NextTrip == ReadDataTabular \/ BuildNexus \/ ReadDataNexus

SpecTrip == InitTrip /\ [][NextTrip]_vars

\* The (taxon, character, state) triples of a PhyloData.
Triples(self) == { <<o[1], o[3], o[4]>> : o \in Observations(self) }

\* The triples a NEXUS matrix stands for: the state of every cell that is
\* neither a gap nor, in binary data with charsets, an absence.
NexusTriples(nexus_data) ==
    LET mtx == nexus_data.matrix
        cells == UNION { { <<m, i>> : i \in 1..Len(mtx[m][2]) } : m \in 1..Len(mtx) }
        cell(c) == mtx[c[1]][2][c[2]]
    IN  IF nexus_data.charset # <<>>
        THEN { <<mtx[c[1]][1], <<"g">>, nexus_data.charstate_labels[c[2]]>> :
                  c \in { d \in cells : cell(d) = "1" } }
        ELSE { <<mtx[c[1]][1], nexus_data.charstate_labels[c[2]], <<cell(c)>> >> :
                  c \in { d \in cells : cell(d) # nexus_data.gap } }

\* C18: a tabular source converted to NEXUS and read back gives a PhyloData
\* with the (taxon, character, state) triples of the source: reading the
\* source keeps its triples, build_nexus renders them, and read_data_nexus
\* recovers the triples of a matrix, for multistate data and for binary data
\* without and with charsets.
C18_RoundTripKeepsTriples ==
    /\ (last.op = "read_data_tabular" /\ call.rows # <<>>) =>
          (ret.err = "none" /\ Triples(phyd) = Range(call.rows))
    /\ last.op = "build_nexus" => ret.err = "none"
    /\ last.op = "read_data_nexus" =>
          (ret.err = "none" /\ Triples(phyd) = NexusTriples(call.nexus_data))

----------------------------------------------------------------------------
(* phylip.read_data_phylip and panphylo.convert                            *)

\* What the first part of read_data_phylip hands over for a PHYLIP text: the
\* two numbers of the header line and, for each other line, the taxon and
\* its vector.
PhylipVectors == UNION { [1..n -> {"-", "A"}] : n \in 1..2 }

PhylipDatas ==
    [ ntax : 1..2, nchar : 1..2,
      rows : ListsUpTo(TaxonNames \X PhylipVectors, MaxRows) ]

\* read_data_phylip, from the validation on: data[taxon] = vector keeps the
\* last vector of a taxon; phyd.add_value is called for the first state that
\* is not "-", and internal.PhyloData has no such method.
read_data_phylip_data(d) ==
    LET keys == { d.rows[i][1] : i \in 1..Len(d.rows) }
        data == [ k \in keys |->
                    d.rows[CHOOSE i \in 1..Len(d.rows) :
                              /\ d.rows[i][1] = k
                              /\ \A j \in (i + 1)..Len(d.rows) : d.rows[j][1] # k][2] ]
        vector_lens == { Len(data[k]) : k \in keys }
    IN  IF Cardinality(keys) # d.ntax THEN ValueError
        ELSE IF Cardinality(vector_lens) # 1 THEN ValueError
        ELSE IF vector_lens # {d.nchar} THEN ValueError
        ELSE IF \E k \in keys : \E i \in 1..Len(data[k]) : data[k][i] # "-"
        THEN Raised("AttributeError")
        ELSE Returned(OldPhyloData)

\* detect_delimiter(source): commas against tabs in the first line
detect_delimiter(source) ==
    LET first == Split(source, "nl")[1]
        commas == Cardinality({ i \in 1..Len(first) : first[i] = "," })
        tabs == Cardinality({ i \in 1..Len(first) : first[i] = "tab" })
    IN  IF commas >= tabs THEN "," ELSE "tab"

\* The values of --from and --to that convert tests for, and one it does not.
FromFormats == {"auto", "tabular", "csv", "tsv", "nexus", "phylip"}
ToFormats == {"csv", "tsv", "nexus", "phylip"}
UnknownFormat == "xml"

\* The sources of convert: the text of a tabular source, or what the parser
\* of the format makes of a NEXUS or of a PHYLIP text.
ConvertSources ==
    [ kind : {"tabular"}, rows : ListsUpTo(SourceRows, 1) ] \cup
    [ kind : {"nexus"},
      nexus_data : { n \in NexusDatas : Len(n.matrix) = 1 /\ n.matrix[1][2][1] = n.matrix[1][2][2] } ] \cup
    [ kind : {"phylip"}, data : PhylipDatas ]

\* The beginning of the text of a source.
SourceHead(source) ==
    CASE source.kind = "tabular" -> TabularSource(source.rows)
      [] source.kind = "nexus" -> <<"#", "N", "E", "X", "U", "S">>
      [] source.kind = "phylip" -> IntStr(source.data.ntax) \o <<" ">> \o IntStr(source.data.nchar)

\* convert, lines 60-64: args["from"] after the detection of "auto"
convert_from(args, source) ==
    IF args.from = "auto"
    THEN IF StartsWith(Strip(SourceHead(source)), <<"#", "N", "E", "X", "U", "S">>)
         THEN "nexus" ELSE "tabular"
    ELSE args.from

\* convert, lines 66-75: the if/elif chain over args["from"], which has no
\* else branch; bound tells whether phyd was assigned, cls the class of the
\* object the reader made.
convert_read(args, source) ==
    LET from == convert_from(args, source)
        read(r, cls) == [err |-> r.err, bound |-> TRUE, cls |-> cls, value |-> r.value]
    IN  CASE from = "tabular" ->
               read(read_data_tabular(TabularSource(source.rows),
                                      detect_delimiter(TabularSource(source.rows)),
                                      args.columns), "phylodata")
          [] from = "csv" ->
               read(read_data_tabular(TabularSource(source.rows), ",", args.columns),
                    "phylodata")
          [] from = "tsv" ->
               read(read_data_tabular(TabularSource(source.rows), "tab", args.columns),
                    "phylodata")
          [] from = "nexus" -> read(read_data_nexus_data(source.nexus_data), "phylodata")
          [] from = "phylip" -> read(read_data_phylip_data(source.data), "internal")
          [] OTHER -> [err |-> "none", bound |-> FALSE, cls |-> "", value |-> <<>>]

\* The outcome of convert: the error raised and the statement that raised
\* it, and what was written to args["output"].
Outcome(err, at) == [err |-> err, at |-> at, value |-> None, output |-> <<>>]

\* convert, lines 88-95: the if/elif chain over args["to"], which has no else
\* branch. tabular.py defines no write_data_tabular and nexus.py no
\* write_data_nexus; write_data_phylip reads phyd.charvalues, which
\* internal.PhyloData does not have, before it opens the output.
convert_write(self, args) ==
    CASE args.to \in {"csv", "tsv", "nexus"} -> Outcome("NameError", "write")
      [] args.to = "phylip" -> Outcome("AttributeError", "write")
      [] OTHER -> Outcome("none", "return")

\* convert(args), on the source that fetch_stream_data returns; it_taxa and
\* it_chars are the iteration orders of the sets that slug_taxa and
\* slug_characters list.
convert(args, source, it_taxa, it_chars) ==
    LET r == convert_read(args, source)
    IN  IF r.err # "none" THEN Outcome(r.err, "read")
        ELSE IF ~r.bound THEN Outcome("UnboundLocalError", "slug_taxa")
        ELSE IF r.cls = "phylodata" THEN Outcome("AttributeError", "slug_taxa")
        ELSE IF unique_ids(it_taxa, args.slug_taxa).err # "none"
        THEN Outcome(unique_ids(it_taxa, args.slug_taxa).err, "slug_taxa")
        ELSE IF unique_ids(it_chars, args.slug_chars).err # "none"
        THEN Outcome(unique_ids(it_chars, args.slug_chars).err, "slug_characters")
        ELSE LET slugged == slug_characters(slug_taxa(r.value, it_taxa, args.slug_taxa),
                                            it_chars, args.slug_chars)
                 bin == binarize((1 :> slugged), 1)
             IN  convert_write(IF args.binarize THEN bin.heap[bin.ref] ELSE slugged, args)

\* The arguments of convert; the source is of the format that args["from"]
\* names, of any format when it names none, and a tabular or a NEXUS text
\* when the format is to be detected.
ConvertArgs ==
    [ from : FromFormats \cup {UnknownFormat}, to : ToFormats \cup {UnknownFormat},
      binarize : BOOLEAN, slug_taxa : {"simple"}, slug_chars : {"simple"},
      columns : ColumnArgs ]

SourcesOf(from) ==
    CASE from \in {"tabular", "csv", "tsv"} -> { s \in ConvertSources : s.kind = "tabular" }
      [] from = "auto" -> { s \in ConvertSources : s.kind \in {"tabular", "nexus"} }
      [] from \in {"nexus", "phylip"} -> { s \in ConvertSources : s.kind = from }
      [] OTHER -> ConvertSources

InitConvert ==
    /\ \E args \in ConvertArgs : \E source \in SourcesOf(args.from) :
          call = [fn |-> "convert", args |-> args, source |-> source]
    /\ ret = <<>>
    /\ phyd = NewPhyloData
    /\ last = NoIdle
    /\ calls = 0
    /\ IdleOld

\* convert(args)
Convert ==
    /\ last = NoIdle
    /\ LET r == convert_read(call.args, call.source)
           read_taxa == IF r.err = "none" /\ r.cls = "internal" THEN r.value.taxa ELSE {}
           read_chars == IF r.err = "none" /\ r.cls = "internal" THEN r.value.characters ELSE {}
       IN  \E it_taxa \in Orders(read_taxa), it_chars \in Orders(read_chars) :
              ret' = convert(call.args, call.source, it_taxa, it_chars)
    /\ last' = [op |-> "convert"]
    /\ UNCHANGED <<phyd, heap, result, calls, call>>

NextConvert == Convert

SpecConvert == InitConvert /\ [][NextConvert]_vars

\* C20: convert raises an error where it detects that args["from"] names no
\* format and where it detects that args["to"] names no format, and a
\* conversion that ends in an error has written nothing to the output.
C20_ConvertRejectsUnknownFormats ==
    last.op = "convert" =>
       /\ call.args.from \notin FromFormats => (ret.err # "none" /\ ret.at = "from")
       /\ (call.args.from \in FromFormats /\ call.args.to \notin ToFormats) =>
             (ret.err # "none" /\ ret.at = "to")
       /\ ret.err # "none" => ret.output = <<>>

\* What convert does in place of it: with a format it does not know in
\* args["from"] it raises UnboundLocalError at phyd.slug_taxa, and every
\* source that a reader accepts ends in an error of the statements between
\* the two chains, so the chain over args["to"] is never reached and nothing
\* is ever written.
ConvertNeverReachesOutput ==
    last.op = "convert" =>
       /\ ret.err # "none" /\ ret.output = <<>>
       /\ ret.at \in {"read", "slug_taxa"}
       /\ call.args.from \notin FromFormats =>
             (ret.err = "UnboundLocalError" /\ ret.at = "slug_taxa")

----------------------------------------------------------------------------
(* phylip.read_data_phylip as a call of its own                            *)

InitPhylip ==
    /\ call \in [fn : {"read_data_phylip"}, data : PhylipDatas]
    /\ ret = <<>>
    /\ phyd = NewPhyloData
    /\ last = NoIdle
    /\ calls = 0
    /\ IdleOld

\* phyd = read_data_phylip(source, args); the object made is an
\* internal.PhyloData, kept in the heap.
ReadDataPhylip ==
    /\ call.fn = "read_data_phylip" /\ last = NoIdle
    /\ LET r == read_data_phylip_data(call.data)
       IN  /\ ret' = r
           /\ heap' = IF r.err = "none" THEN (1 :> r.value) ELSE heap
    /\ last' = [op |-> "read_data_phylip"]
    /\ UNCHANGED <<phyd, result, calls, call>>

NextPhylip == ReadDataPhylip

SpecPhylip == InitPhylip /\ [][NextPhylip]_vars

\* C21: read_data_phylip raises an error when the number of taxon rows is
\* not the ntax of the header, when the vectors of the rows differ in length
\* or when their length is not the nchar of the header; when the three agree
\* it returns a PhyloData in which every cell other than "-" is one
\* observation.
C21_PhylipValidatesAndReads ==
    last.op = "read_data_phylip" =>
       LET d == call.data
           lens == { Len(d.rows[i][2]) : i \in 1..Len(d.rows) }
           mismatch == \/ Len(d.rows) # d.ntax
                       \/ Cardinality(lens) # 1
                       \/ lens # {d.nchar}
           cells == { <<i, j>> \in (1..Len(d.rows)) \X (1..d.nchar) : d.rows[i][2][j] # "-" }
       IN  /\ mismatch => ret.err # "none"
           /\ ~mismatch =>
                 /\ ret.err = "none"
                 /\ Cardinality(UNION { { <<k, st>> : st \in ret.value.states[k] } :
                                           k \in DOMAIN ret.value.states })
                       = Cardinality(cells)

\* What the code does: the three mismatches raise ValueError, with the rows
\* counted after a repeated taxon has replaced its earlier vector; a source
\* that passes them is read only when all its cells are "-", and any other
\* cell raises AttributeError at phyd.add_value.
PhylipReadsOnlyGaps ==
    last.op = "read_data_phylip" =>
       LET d == call.data
           taxa_read == { d.rows[i][1] : i \in 1..Len(d.rows) }
       IN  /\ Cardinality(taxa_read) # d.ntax => ret.err = "ValueError"
           /\ ret.err = "none" => ret.value = OldPhyloData
           /\ ret.err = "AttributeError" =>
                 \E i \in 1..Len(d.rows) : \E j \in 1..Len(d.rows[i][2]) : d.rows[i][2][j] # "-"

----------------------------------------------------------------------------
(* nexus.parse_nexus: strings and the regular expressions it uses          *)

\* What \s and str.strip() take for whitespace in a NEXUS text.
IsWhite(c) == c \in {" ", "tab", "nl", "cr"}

RECURSIVE LStripW(_)
LStripW(s) == IF s # <<>> /\ IsWhite(Head(s)) THEN LStripW(Tail(s)) ELSE s

RECURSIVE RStripW(_)
RStripW(s) ==
    IF s # <<>> /\ IsWhite(s[Len(s)]) THEN RStripW(SubSeq(s, 1, Len(s) - 1)) ELSE s

\* buffer.strip()
StripW(s) == RStripW(LStripW(s))

\* str.upper()
UpperChar(c) ==
    IF c \in Range(Lowercase)
    THEN Uppercase[CHOOSE i \in 1..Len(Lowercase) : Lowercase[i] = c] ELSE c

Upper(s) == [i \in 1..Len(s) |-> UpperChar(s[i])]

\* re.sub(r"\s", "", s)
RemoveWhite(s) == SelectSeq(s, LAMBDA c : ~IsWhite(c))

\* re.sub(r"\s+", " ", s)
RECURSIVE Collapse(_)
Collapse(s) ==
    IF s = <<>> THEN <<>>
    ELSE IF IsWhite(Head(s)) THEN <<" ">> \o Collapse(LStripW(s))
    ELSE <<Head(s)>> \o Collapse(Tail(s))

\* s.split(): the maximal runs of characters that are not whitespace
RECURSIVE Words(_)
Words(s) ==
    LET t == LStripW(s)
        n == CHOOSE k \in 0..Len(t) :
                /\ \A i \in 1..k : ~IsWhite(t[i])
                /\ (k = Len(t) \/ IsWhite(t[k + 1]))
    IN  IF t = <<>> THEN <<>>
        ELSE <<SubSeq(t, 1, n)>> \o Words(SubSeq(t, n + 1, Len(t)))

\* s.find(sub, start): the lowest index (from 0) at or after start where sub
\* begins, -1 when there is none; a negative start counts from the end.
Find(s, sub, start) ==
    LET from == IF start < 0 THEN (IF Len(s) + start < 0 THEN 0 ELSE Len(s) + start)
                ELSE start
        hits == { i \in from..(Len(s) - Len(sub)) : SubSeq(s, i + 1, i + Len(sub)) = sub }
    IN  IF hits = {} THEN 0 - 1 ELSE CHOOSE i \in hits : \A j \in hits : i <= j

\* int(digits)
RECURSIVE ToInt(_)
ToInt(digits) ==
    IF digits = <<>> THEN 0
    ELSE 10 * ToInt(SubSeq(digits, 1, Len(digits) - 1))
         + (CHOOSE d \in 0..9 : Digits[d + 1] = digits[Len(digits)])

\* The character classes of the patterns: \d, \w, `.` and [^"].
InClass(class, c) ==
    CASE class = "digit" -> c \in Range(Digits)
      [] class = "word" -> c \in AsciiLetters \cup Range(Digits) \cup {"_"}
      [] class = "any" -> c # "nl"
      [] class = "notquote" -> c # "dquote"

\* The first index at or after i that holds no whitespace (Len(s) + 1 when
\* there is none).
SkipWhite(s, i) ==
    CHOOSE j \in i..(Len(s) + 1) :
       /\ \A k \in i..(j - 1) : IsWhite(s[k])
       /\ (j = Len(s) + 1 \/ ~IsWhite(s[j]))

\* The last index of the run of class characters that begins at i (i - 1
\* when s[i] is not of the class).
RunEnd(s, i, class) ==
    CHOOSE e \in (i - 1)..Len(s) :
       /\ \A k \in i..e : InClass(class, s[k])
       /\ (e = Len(s) \/ ~InClass(class, s[e + 1]))

\* A match of `KEY\s*=\s*` that begins at index p: the index after it, 0
\* when there is no match at p, and the index of the "=".
EqAt(s, p, key) ==
    IF p + Len(key) - 1 <= Len(s) /\ SubSeq(s, p, p + Len(key) - 1) = key
    THEN LET e == SkipWhite(s, p + Len(key))
         IN  IF e <= Len(s) /\ s[e] = "=" THEN e ELSE 0
    ELSE 0

\* The group of a match at p of KEY\s*=\s*(\d+), KEY\s*=\s*(\w+),
\* KEY\s*=\s*(.) or KEY\s*=\s*"([^"]+)": <<>> when there is no match at p.
\* For `.`, \s* gives whitespace back when nothing else follows.
GroupAt(s, p, key, class) ==
    LET e == EqAt(s, p, key)
        v == SkipWhite(s, e + 1)
    IN  IF e = 0 THEN <<>>
        ELSE CASE class = "any" ->
                    LET js == { j \in (e + 1)..(IF v <= Len(s) THEN v ELSE Len(s)) : s[j] # "nl" }
                    IN  IF js = {} THEN <<>>
                        ELSE <<s[CHOOSE j \in js : \A k \in js : k <= j]>>
               [] class = "notquote" ->
                    IF v <= Len(s) /\ s[v] = "dquote"
                    THEN LET r == RunEnd(s, v + 1, class)
                         IN  IF r >= v + 1 /\ r < Len(s) THEN SubSeq(s, v + 1, r) ELSE <<>>
                    ELSE <<>>
               [] OTHER -> SubSeq(s, v, RunEnd(s, v, class))

\* re.search of such a pattern: the group of the leftmost match, None when
\* there is none.
SearchGroup(s, key, class) ==
    LET ps == { p \in 1..Len(s) : GroupAt(s, p, key, class) # <<>> }
    IN  IF ps = {} THEN None
        ELSE GroupAt(s, CHOOSE p \in ps : \A q \in ps : p <= q, key, class)

\* The matches of BEGIN\s+(.+)\s*; at the beginning of s: where the
\* whitespace ends, where the group ends and where the ";" stands.
BeginMatches(s) ==
    IF ~StartsWith(s, <<"B", "E", "G", "I", "N">>) THEN {}
    ELSE { m \in (6..Len(s)) \X (7..Len(s)) \X (8..Len(s)) :
             /\ m[1] < m[2] /\ m[2] < m[3] /\ s[m[3]] = ";"
             /\ \A k \in 6..m[1] : IsWhite(s[k])
             /\ \A k \in (m[1] + 1)..m[2] : s[k] # "nl"
             /\ \A k \in (m[2] + 1)..(m[3] - 1) : IsWhite(s[k]) }

\* re.match(r"BEGIN\s+(.+)\s*;", s): whether s begins with a match.
MatchBegin(s) == BeginMatches(s) # {}

\* match.group(1): \s+ takes all the whitespace it can, then `.+` all the
\* characters it can.
BeginGroup(s) ==
    LET ms == BeginMatches(s)
        m == CHOOSE x \in ms :
                \A y \in ms : y[1] < x[1] \/ (y[1] = x[1] /\ y[2] <= x[2])
    IN  SubSeq(s, m[1] + 1, m[2])

----------------------------------------------------------------------------
(* nexus.parse_nexus: the statements of a block                            *)

\* nexus_data as parse_nexus creates it. A dict is written as a function of
\* its keys; matrix as the sequence of its (taxon, vector) items and
\* charstate_states as the sequence of its keys, in insertion order (the
\* lists of state names it holds are read nowhere).
NewNexusData ==
    [ ntax |-> None, nchar |-> None, datatype |-> None, missing |-> None,
      gap |-> None, symbols |-> None, charstate_labels |-> <<>>,
      charstate_states |-> <<>>, matrix |-> <<>>, charset |-> <<>> ]

\* s[start:-1], for a start from -1 on
SliceToLast(s, start) ==
    LET from == IF start < 0 THEN (IF Len(s) + start < 0 THEN 0 ELSE Len(s) + start)
                ELSE start
    IN  SubSeq(s, from + 1, Len(s) - 1)

\* command == "DIMENSIONS"
ParseDimensions(nexus_data, buffer) ==
    LET ntax_match == SearchGroup(Upper(buffer), <<"N", "T", "A", "X">>, "digit")
        nchar_match == SearchGroup(Upper(buffer), <<"N", "C", "H", "A", "R">>, "digit")
    IN  [ nexus_data EXCEPT
            !.ntax = IF ntax_match # None THEN ToInt(ntax_match) ELSE @,
            !.nchar = IF nchar_match # None THEN ToInt(nchar_match) ELSE @ ]

\* command == "FORMAT"
ParseFormat(nexus_data, buffer) ==
    LET datatype_match ==
            SearchGroup(Upper(buffer), <<"D", "A", "T", "A", "T", "Y", "P", "E">>, "word")
        missing_match == SearchGroup(Upper(buffer), <<"M", "I", "S", "S", "I", "N", "G">>, "any")
        gap_match == SearchGroup(Upper(buffer), <<"G", "A", "P">>, "any")
        symbols_match ==
            SearchGroup(Upper(buffer), <<"S", "Y", "M", "B", "O", "L", "S">>, "notquote")
    IN  [ nexus_data EXCEPT
            !.datatype = IF datatype_match # None THEN datatype_match ELSE @,
            !.missing = IF missing_match # None THEN missing_match[1] ELSE @,
            !.gap = IF gap_match # None THEN gap_match[1] ELSE @,
            !.symbols = IF symbols_match # None
                        THEN SelectSeq(symbols_match, LAMBDA c : c # " ") ELSE @ ]

\* A match at p of (\d+)\s+(\S+)\s*/(.+) in a label whose whitespace is
\* single spaces: the indexes where the digits end, the label ends and the
\* slash stands, <<>> when there is no match at p. \S+ takes the longest
\* label that a slash and one more character can follow.
SlashAt(s, p) ==
    LET d == RunEnd(s, p, "digit")
        l == SkipWhite(s, d + 1)
        es == { e \in l..Len(s) :
                  /\ \A k \in l..e : ~IsWhite(s[k])
                  /\ LET sl == SkipWhite(s, e + 1)
                     IN  sl < Len(s) /\ s[sl] = "/" }
    IN  IF d < p \/ l = d + 1 \/ es = {} THEN <<>>
        ELSE LET e == CHOOSE x \in es : \A y \in es : y <= x
             IN  <<d, l, e, SkipWhite(s, e + 1)>>

\* One charstatelabel of a CHARSTATELABELS statement.
ParseCharStateLabel(nexus_data, label) ==
    LET charstatelabel == Collapse(StripW(label))
        ps == { p \in 1..Len(charstatelabel) : SlashAt(charstatelabel, p) # <<>> }
        first == CHOOSE p \in ps : \A q \in ps : p <= q
        m == SlashAt(charstatelabel, first)
        tokens == Words(charstatelabel)
        set(idx, charlabel, states) ==
            [ nexus_data EXCEPT
                !.charstate_labels =
                    [ k \in DOMAIN @ \cup {idx} |-> IF k = idx THEN charlabel ELSE @[k] ],
                !.charstate_states =
                    IF ~states \/ charlabel \in Range(@) THEN @ ELSE Append(@, charlabel) ]
    IN  IF charstatelabel = <<>> THEN Returned(nexus_data)
        ELSE IF "/" \in Range(charstatelabel)
        THEN IF ps = {} THEN Raised("AttributeError")
             ELSE Returned(set(ToInt(SubSeq(charstatelabel, first, m[1])),
                               SubSeq(charstatelabel, m[2], m[3]), TRUE))
        ELSE IF Len(tokens) # 2 THEN ValueError
        ELSE IF \E i \in 1..Len(tokens[1]) : ~InClass("digit", tokens[1][i]) THEN ValueError
        ELSE Returned(set(ToInt(tokens[1]), tokens[2], FALSE))

\* The loop over the charstatelabels, from the i-th on.
RECURSIVE ParseCharStateLabels(_, _, _)
ParseCharStateLabels(nexus_data, labels, i) ==
    IF i > Len(labels) THEN Returned(nexus_data)
    ELSE LET r == ParseCharStateLabel(nexus_data, labels[i])
         IN  IF r.err # "none" THEN r ELSE ParseCharStateLabels(r.value, labels, i + 1)

\* command == "CHARSTATELABELS"
ParseCharStateLabelsCommand(nexus_data, buffer) ==
    LET charstate_buffer == Collapse(StripW(buffer))
        keyword == <<"C", "H", "A", "R", "S", "T", "A", "T", "E", "L", "A", "B", "E", "L", "S">>
        start_idx == Find(charstate_buffer, <<" ">>, Find(charstate_buffer, keyword, 0))
    IN  ParseCharStateLabels(nexus_data,
                             Split(SliceToLast(charstate_buffer, start_idx), ","), 1)

\* nexus_data["matrix"][taxon] = vector
SetMatrix(mtx, taxon, vector) ==
    IF \E i \in 1..Len(mtx) : mtx[i][1] = taxon
    THEN [ i \in 1..Len(mtx) |-> IF mtx[i][1] = taxon THEN <<taxon, vector>> ELSE mtx[i] ]
    ELSE Append(mtx, <<taxon, vector>>)

\* The loop over the entries of a MATRIX statement, from the i-th on.
RECURSIVE ParseMatrixEntries(_, _, _)
ParseMatrixEntries(nexus_data, entries, i) ==
    IF i > Len(entries) THEN Returned(nexus_data)
    ELSE LET tokens == Words(Collapse(StripW(entries[i])))
         IN  IF Len(tokens) # 2 THEN ValueError
             ELSE ParseMatrixEntries(
                     [nexus_data EXCEPT !.matrix = SetMatrix(@, tokens[1], tokens[2])],
                     entries, i + 1)

\* command == "MATRIX"
ParseMatrix(nexus_data, buffer) ==
    LET start_idx == Find(buffer, <<"M", "A", "T", "R", "I", "X">>, 0) + 6
    IN  ParseMatrixEntries(nexus_data,
                           Split(StripW(SliceToLast(buffer, start_idx + 1)), "nl"), 1)

\* A match at p of charset\s*(\w+)\s*=\s*(\d+)\s*-\s*(\d+): the entry it
\* gives, <<>> when there is no match at p.
CharsetAt(s, p) ==
    LET key == <<"c", "h", "a", "r", "s", "e", "t">>
        n == SkipWhite(s, p + Len(key))
        ne == RunEnd(s, n, "word")
        e == SkipWhite(s, ne + 1)
        a == SkipWhite(s, e + 1)
        ae == RunEnd(s, a, "digit")
        h == SkipWhite(s, ae + 1)
        b == SkipWhite(s, h + 1)
        be == RunEnd(s, b, "digit")
    IN  IF /\ p + Len(key) - 1 <= Len(s) /\ SubSeq(s, p, p + Len(key) - 1) = key
           /\ ne >= n
           /\ e <= Len(s) /\ s[e] = "="
           /\ ae >= a
           /\ h <= Len(s) /\ s[h] = "-"
           /\ be >= b
        THEN << [charset |-> SubSeq(s, n, ne), start |-> ToInt(SubSeq(s, a, ae)),
                 end |-> ToInt(SubSeq(s, b, be))] >>
        ELSE <<>>

\* command == "CHARSET": the pattern is searched in the buffer as written.
ParseCharset(nexus_data, buffer) ==
    LET ps == { p \in 1..Len(buffer) : CharsetAt(buffer, p) # <<>> }
    IN  IF ps = {} THEN nexus_data
        ELSE [ nexus_data EXCEPT
                 !.charset = @ \o CharsetAt(buffer, CHOOSE p \in ps : \A q \in ps : p <= q) ]

\* The first token of the statement, in upper case.
Command(buffer) == Upper(Words(Collapse(StripW(buffer)))[1])

\* A mutant of the chain that rejects a command it does not know.
ParseCommandStrict(nexus_data, buffer) ==
    LET command == Command(buffer)
    IN  CASE command = <<"D", "I", "M", "E", "N", "S", "I", "O", "N", "S">> ->
               Returned(ParseDimensions(nexus_data, buffer))
          [] command = <<"F", "O", "R", "M", "A", "T">> ->
               Returned(ParseFormat(nexus_data, buffer))
          [] command = <<"C", "H", "A", "R", "S", "T", "A", "T", "E", "L", "A", "B", "E", "L", "S">> ->
               ParseCharStateLabelsCommand(nexus_data, buffer)
          [] command = <<"M", "A", "T", "R", "I", "X">> -> ParseMatrix(nexus_data, buffer)
          [] command = <<"C", "H", "A", "R", "S", "E", "T">> ->
               Returned(ParseCharset(nexus_data, buffer))
          [] OTHER -> ValueError

\* The if/elif chain over the command of a statement inside a block.
ParseCommand(nexus_data, buffer) ==
    LET command == Command(buffer)
    IN  CASE command = <<"D", "I", "M", "E", "N", "S", "I", "O", "N", "S">> ->
               Returned(ParseDimensions(nexus_data, buffer))
          [] command = <<"F", "O", "R", "M", "A", "T">> ->
               Returned(ParseFormat(nexus_data, buffer))
          [] command = <<"C", "H", "A", "R", "S", "T", "A", "T", "E", "L", "A", "B", "E", "L", "S">> ->
               ParseCharStateLabelsCommand(nexus_data, buffer)
          [] command = <<"M", "A", "T", "R", "I", "X">> -> ParseMatrix(nexus_data, buffer)
          [] command = <<"C", "H", "A", "R", "S", "E", "T">> ->
               Returned(ParseCharset(nexus_data, buffer))
          [] OTHER -> Returned(nexus_data)


----------------------------------------------------------------------------
(* nexus.parse_nexus: the automaton                                        *)

\* The locals of parse_nexus before the loop: nexus_data (value), the
\* buffer, the state of the automaton and the number of characters read.
NewParser ==
    [ err |-> "none", value |-> NewNexusData, parser_state |-> "NONE",
      buffer |-> <<>>, block_name |-> <<>>, idx |-> 0, returned |-> FALSE ]

NEXUS == <<"#", "N", "E", "X", "U", "S">>

\* A mutant of the pass in state NONE that keeps the buffer on the transition.
StepNoneKeepsBuffer(st, char) ==
    LET buffer == Append(st.buffer, char)
    IN  IF StripW(buffer) = NEXUS
        THEN [st EXCEPT !.buffer = buffer, !.parser_state = "OUT_OF_BLOCK", !.idx = @ + 1]
        ELSE [st EXCEPT !.buffer = buffer, !.idx = @ + 1]

\* One pass through the body of the loop, in state NONE.
StepNone(st, char) ==
    LET buffer == Append(st.buffer, char)
    IN  IF StripW(buffer) = NEXUS
        THEN [st EXCEPT !.buffer = <<>>, !.parser_state = "OUT_OF_BLOCK", !.idx = @ + 1]
        ELSE [st EXCEPT !.buffer = buffer, !.idx = @ + 1]

\* One pass through the body of the loop, in state OUT_OF_BLOCK.
StepOutOfBlock(st, char) ==
    LET buffer == Append(st.buffer, char)
    IN  IF char # ";" THEN [st EXCEPT !.buffer = buffer, !.idx = @ + 1]
        ELSE IF MatchBegin(StripW(Upper(buffer)))
        THEN [st EXCEPT !.block_name = BeginGroup(StripW(Upper(buffer))),
                        !.buffer = <<>>, !.parser_state = "IN_BLOCK", !.idx = @ + 1]
        ELSE [st EXCEPT !.err = "ValueError", !.buffer = buffer, !.idx = @ + 1]

\* The end of a pass that went through the chain over the command, r being
\* what the chain gave: an exception leaves the loop, otherwise nexus_data
\* holds what the statement set and `buffer = ""` has run.
AfterCommand(st, buffer, r) ==
    IF r.err # "none"
    THEN [st EXCEPT !.err = r.err, !.buffer = buffer, !.idx = @ + 1]
    ELSE [st EXCEPT !.value = r.value, !.buffer = <<>>, !.idx = @ + 1]

\* A mutant of the pass in state IN_BLOCK that compares the statement with
\* "END;" without removing the whitespace inside it.
StepInBlockExactEnd(st, char) ==
    LET buffer == Append(st.buffer, char)
    IN  IF char # ";" THEN [st EXCEPT !.buffer = buffer, !.idx = @ + 1]
        ELSE IF StripW(Upper(buffer)) = <<"E", "N", "D", ";">>
        THEN [st EXCEPT !.buffer = <<>>, !.parser_state = "OUT_OF_BLOCK", !.idx = @ + 1]
        ELSE AfterCommand(st, buffer, ParseCommand(st.value, buffer))

\* One pass through the body of the loop, in state IN_BLOCK.
StepInBlock(st, char) ==
    LET buffer == Append(st.buffer, char)
    IN  IF char # ";" THEN [st EXCEPT !.buffer = buffer, !.idx = @ + 1]
        ELSE IF RemoveWhite(StripW(Upper(buffer))) = <<"E", "N", "D", ";">>
        THEN [st EXCEPT !.buffer = <<>>, !.parser_state = "OUT_OF_BLOCK", !.idx = @ + 1]
        ELSE AfterCommand(st, buffer, ParseCommand(st.value, buffer))

\* The body of the loop `for idx, char in enumerate(source)`.
ParseStep(st, char) ==
    CASE st.parser_state = "NONE" -> StepNone(st, char)
      [] st.parser_state = "OUT_OF_BLOCK" -> StepOutOfBlock(st, char)
      [] st.parser_state = "IN_BLOCK" -> StepInBlock(st, char)

\* The loop, from the locals st on.
RECURSIVE ParseLoop(_, _)
ParseLoop(st, source) ==
    IF st.err # "none" \/ st.idx >= Len(source) THEN st
    ELSE ParseLoop(ParseStep(st, source[st.idx + 1]), source)

\* parse_nexus(source)
parse_nexus(source) ==
    LET st == ParseLoop(NewParser, source)
    IN  IF st.err # "none" THEN Raised(st.err) ELSE Returned(st.value)


----------------------------------------------------------------------------
(* parse_nexus over a source that is read piece by piece: a header piece,  *)
(* then up to MaxPieces statements.                                        *)

MaxPieces == 3

\* The beginnings of a source: "#NEXUS" and whitespace, the same after
\* whitespace, "#NEXUS" with a character right after it or right before it,
\* and nothing (the source begins with its first statement).
Headers ==
    { NEXUS \o <<"nl">>, <<"nl", " ">> \o NEXUS \o <<" ">>, NEXUS \o <<"x">>,
      <<"x">> \o NEXUS \o <<" ">>, <<>> }

\* The statements of a source.
Pieces ==
    { <<" ", "B", "E", "G", "I", "N", " ", "d", ";">>,
      <<"nl", "b", "e", "g", "i", "n", " ", "a", " ", "b", " ", ";">>,
      <<"B", "E", "G", "I", "N", " ", " ", ";">>,
      <<"B", "E", "G", "I", "N", ";">>,
      <<"nl", "E", "N", "D", ";">>,
      <<" ", "e", " ", "n", "nl", "d", " ", ";">>,
      <<"f", "o", "o", " ", "1", ";">>,
      <<"M", "A", "T", "R", "I", "X", ";">>,
      <<"D", "I", "M", "E", "N", "S", "I", "O", "N", "S", " ", "n", "t", "a", "x", "=", "1", ";">>,
      <<"F", "o", "r", "m", "a", "t", " ", "g", "a", "p", "=", "-", ";">>,
      <<"C", "H", "A", "R", "S", "T", "A", "T", "E", "L", "A", "B", "E", "L", "S", " ", "1", " ", "c", ";">>,
      <<"M", "A", "T", "R", "I", "X", "nl", "t", " ", "0", "nl", ";">>,
      <<"m", "a", "t", "r", "i", "x", " ", "t", " ", "0", ";">>,
      <<"c", "h", "a", "r", "s", "e", "t", " ", "g", " ", "=", " ", "1", "-", "2", ";">>,
      <<"C", "H", "A", "R", "S", "E", "T", " ", "g", " ", "=", " ", "1", "-", "2", ";">> }

\* call holds the header of the source, what is left of the piece being
\* read and the number of statements read; ret holds the locals of
\* parse_nexus.
InitParse ==
    /\ \E header \in Headers :
          call = [fn |-> "parse_nexus", header |-> header, pending |-> header, pieces |-> 0]
    /\ ret = NewParser
    /\ phyd = NewPhyloData
    /\ last = NoIdle
    /\ calls = 0
    /\ IdleOld

\* The texts the loop may read from: the piece being read or, at its end,
\* any further statement of the source.
Reading ==
    IF call.pending # <<>> THEN {call.pending}
    ELSE IF call.pieces < MaxPieces THEN Pieces ELSE {}

\* One pass through the body of the loop in the given state of the
\* automaton; dispatched tells whether the pass went through the chain over
\* the command.
LoopPass(parser_state, piece) ==
    /\ ret.err = "none" /\ ~ret.returned
    /\ ret.parser_state = parser_state
    /\ ret' = ParseStep(ret, Head(piece))
    /\ call' = [call EXCEPT !.pending = Tail(piece),
                            !.pieces = IF call.pending = <<>> THEN @ + 1 ELSE @]
    /\ last' = [op |-> "pass", state |-> parser_state, char |-> Head(piece),
                buffer |-> Append(ret.buffer, Head(piece)),
                dispatched |-> /\ parser_state = "IN_BLOCK" /\ Head(piece) = ";"
                               /\ ret'.parser_state = "IN_BLOCK"]
    /\ UNCHANGED <<phyd, heap, result, calls>>

InNone(piece) == LoopPass("NONE", piece)

InOutOfBlock(piece) == LoopPass("OUT_OF_BLOCK", piece)

InBlock(piece) == LoopPass("IN_BLOCK", piece)

\* return nexus_data, at the end of the source
ReturnNexusData ==
    /\ ret.err = "none" /\ ~ret.returned
    /\ call.pending = <<>>
    /\ ret' = [ret EXCEPT !.returned = TRUE]
    /\ last' = [op |-> "return"]
    /\ UNCHANGED <<phyd, heap, result, calls, call>>

NextParse ==
    \/ \E piece \in Reading : InNone(piece)
    \/ \E piece \in Reading : InOutOfBlock(piece)
    \/ \E piece \in Reading : InBlock(piece)
    \/ ReturnNexusData

SpecParse == InitParse /\ [][NextParse]_vars



\* Whether a source that begins with header has "#NEXUS" for its first
\* content: the first run of characters that are not whitespace.
HeaderIsNexus(header) == Words(header) # <<>> /\ Words(header)[1] = NEXUS

\* C22: parse_nexus fails with an error for every source whose first
\* content, whitespace aside, is not exactly "#NEXUS" (a source without
\* "#NEXUS", and one where other characters follow it directly); it returns
\* a record only when the header is exactly "#NEXUS".
C22_ParseRequiresExactHeader ==
    ret.returned => HeaderIsNexus(call.header)

\* What the code does in place of it: a source in which the buffer never
\* reads "#NEXUS" is read to its end in state NONE and the record is
\* returned as it was created.
ParseWithoutHeaderReturnsEmpty ==
    (ret.returned /\ ret.parser_state = "NONE") => ret.value = NewNexusData

\* The statement read up to a ";" without the ";", in upper case, as words.
StatementWords(buffer) == Words(Upper(SubSeq(buffer, 1, Len(buffer) - 1)))

\* C23: in state OUT_OF_BLOCK, at a ";", the parser fails with an error when
\* the content read since the last statement is not BEGIN and a name (in
\* any letter case) and, when it is, enters IN_BLOCK with an empty buffer.
C23_BeginOpensBlock ==
    (last.op = "pass" /\ last.state = "OUT_OF_BLOCK" /\ last.char = ";") =>
       IF Len(StatementWords(last.buffer)) >= 2
          /\ StatementWords(last.buffer)[1] = <<"B", "E", "G", "I", "N">>
       THEN ret.err = "none" /\ ret.parser_state = "IN_BLOCK" /\ ret.buffer = <<>>
       ELSE ret.err # "none"

\* What the code does: the statement opens a block exactly when it matches
\* BEGIN\s+(.+)\s*; and whitespace can stand for the name (BEGIN, two
\* spaces and ";").
BeginOpensBlockOnMatch ==
    (last.op = "pass" /\ last.state = "OUT_OF_BLOCK" /\ last.char = ";") =>
       IF MatchBegin(StripW(Upper(last.buffer)))
       THEN ret.err = "none" /\ ret.parser_state = "IN_BLOCK" /\ ret.buffer = <<>>
       ELSE ret.err = "ValueError"

\* A pass of the loop in state IN_BLOCK that reads the ";" of a statement.
StatementEnds == last'.op = "pass" /\ last'.state = "IN_BLOCK" /\ last'.char = ";"

\* C24: in state IN_BLOCK a statement that reads "END;", whitespace removed
\* and letter case ignored, moves the parser to OUT_OF_BLOCK and changes no
\* field of the record; every other statement leaves it in IN_BLOCK.
C24_EndClosesBlock ==
    [][ StatementEnds =>
           IF RemoveWhite(Upper(last'.buffer)) = <<"E", "N", "D", ";">>
           THEN /\ ret'.parser_state = "OUT_OF_BLOCK" /\ ret'.err = "none"
                /\ ret'.value = ret.value
           ELSE ret'.parser_state = "IN_BLOCK" ]_vars

\* An END written with whitespace inside it has closed a block in which
\* the record was filled.
C24_Witness ==
    /\ last.op = "pass" /\ last.state = "IN_BLOCK" /\ last.char = ";"
    /\ RemoveWhite(Upper(last.buffer)) = <<"E", "N", "D", ";">>
    /\ Len(StripW(last.buffer)) > 4
    /\ ret.parser_state = "OUT_OF_BLOCK" /\ ret.value # NewNexusData

\* The keywords the chain over the command knows, and END.
Keywords ==
    { <<"D", "I", "M", "E", "N", "S", "I", "O", "N", "S">>, <<"F", "O", "R", "M", "A", "T">>,
      <<"C", "H", "A", "R", "S", "T", "A", "T", "E", "L", "A", "B", "E", "L", "S">>,
      <<"M", "A", "T", "R", "I", "X">>, <<"C", "H", "A", "R", "S", "E", "T">>,
      <<"E", "N", "D">> }

\* C25: a statement inside a block whose leading keyword is none of
\* DIMENSIONS, FORMAT, CHARSTATELABELS, MATRIX, CHARSET and END raises no
\* error and leaves every field of the record as it was; parsing goes on
\* with an empty buffer.
C25_UnknownStatementIgnored ==
    [][ (StatementEnds /\ (StatementWords(last'.buffer) = <<>>
                           \/ StatementWords(last'.buffer)[1] \notin Keywords)) =>
           /\ ret'.err = "none"
           /\ ret'.value = ret.value
           /\ ret'.buffer = <<>> ]_vars

\* The statement "foo 1;" has been read in a block whose record was filled.
C25_Witness ==
    /\ last.op = "pass" /\ last.state = "IN_BLOCK" /\ last.char = ";"
    /\ StatementWords(last.buffer) # <<>>
    /\ StatementWords(last.buffer)[1] = <<"F", "O", "O">>
    /\ ret.err = "none" /\ ret.buffer = <<>> /\ ret.value # NewNexusData

\* C26: every statement `charset <name> = <start>-<end>;` inside a block,
\* its keyword in any letter case (the upper case that
\* build_assumption_block writes among them), appends one entry (name,
\* start, end) to the charset list of the record.
C26_CharsetAnyCase ==
    [][ (StatementEnds /\ CharsetAt(Lower(StripW(last'.buffer)), 1) # <<>>) =>
           /\ ret'.err = "none"
           /\ ret'.value.charset =
                 ret.value.charset \o CharsetAt(Lower(StripW(last'.buffer)), 1) ]_vars

\* What the code does: the command is compared in upper case, the pattern
\* is searched as written with `charset` in lower case, so that only a
\* statement with the keyword in lower case appends an entry.
CharsetOnlyLowerCase ==
    [][ StatementEnds =>
           IF CharsetAt(StripW(last'.buffer), 1) # <<>>
           THEN ret'.value.charset = ret.value.charset \o CharsetAt(StripW(last'.buffer), 1)
           ELSE ret'.err = "none" => ret'.value.charset = ret.value.charset ]_vars

----------------------------------------------------------------------------
(* read_data_nexus on the cells of a matrix                                *)

\* C27: read_data_nexus turns every cell that holds the missing symbol into
\* the observation "?", records nothing for a cell that holds the gap
\* symbol, and records one observation of the taxon, for the character of
\* the column, for every other cell, the symbol "0" among them.
C27_CellsBecomeObservations ==
    last.op = "read_data_nexus" =>
       LET nd == call.nexus_data
           mtx == nd.matrix
           of_taxon(m) == { o \in Observations(phyd) : o[1] = mtx[m][1] }
       IN  /\ ret.err = "none"
           /\ \A m \in 1..Len(mtx) :
                 /\ (\E i \in 1..Len(mtx[m][2]) : mtx[m][2][i] = nd.missing) =>
                       \E o \in of_taxon(m) : o[4] = MISSING
                 /\ (\A i \in 1..Len(mtx[m][2]) : mtx[m][2][i] = nd.gap) => of_taxon(m) = {}
                 /\ \A i \in 1..Len(mtx[m][2]) :
                       mtx[m][2][i] \notin {nd.missing, nd.gap} =>
                          \E o \in of_taxon(m) :
                             o[3] = nd.charstate_labels[i] \/ o[4] = nd.charstate_labels[i]

\* What the code does: the cells are collected in `states` (a cell "0" is
\* skipped when the source has charsets, every cell when it has neither
\* charsets nor state names), and the first phyd.extend is given a key of
\* two parts: the PhyloData that is returned is empty, and it is returned
\* only when `states` is.
NexusReadKeepsNoCell ==
    last.op = "read_data_nexus" =>
       /\ ret.err \in {"none", "ValueError"}
       /\ ret.err = "none" => (phyd = NewPhyloData /\ nexus_states(call.nexus_data).value = {})

\* C28: without a CHARSET, read_data_nexus takes each column of the matrix
\* for a character of its own, named by the charstate label of the column:
\* a matrix of n columns without gap and missing cells gives n characters,
\* also when the CHARSTATELABELS carry no state names.
C28_ColumnsAreCharacters ==
    LET nd == call.nexus_data
    IN  ( /\ last.op = "read_data_nexus"
          /\ nd.charset = <<>>
          /\ \A m \in 1..Len(nd.matrix) : \A i \in 1..Len(nd.matrix[m][2]) :
                nd.matrix[m][2][i] \notin {nd.missing, nd.gap} ) =>
             /\ ret.err = "none"
             /\ Len(characters(phyd)) = Len(nd.matrix[1][2])


----------------------------------------------------------------------------
(* The shape of the matrix projection                                      *)

\* C30: for a PhyloData without polymorphic observations the matrix
\* projection has one row per taxon and every row is as long as there are
\* characters, also when a taxon has no observation for a character.
C30_MatrixIsRectangular ==
    ( /\ last.op = "matrix"
      /\ \A k \in DOMAIN phyd.obs : Cardinality(phyd.obs[k]) <= 1 ) =>
         /\ Len(ret.value) = Cardinality(phyd.taxa)
         /\ \A i \in 1..Len(ret.value) : Len(ret.value[i][2]) = Len(characters(phyd))

\* What the code does: a row holds one symbol for each character the taxon
\* was observed for, and nothing for the others.
MatrixRowsHoldObservedCells ==
    ( /\ last.op = "matrix"
      /\ \A k \in DOMAIN phyd.obs : Cardinality(phyd.obs[k]) <= 1 ) =>
         /\ Len(ret.value) = Cardinality(phyd.taxa)
         /\ \A i \in 1..Len(ret.value) :
               Len(ret.value[i][2]) =
                  Cardinality({ k \in DOMAIN phyd.obs : k[1] = ret.value[i][1] /\ phyd.obs[k] # {} })

=============================================================================
